---- MODULE Spec2Model ----
(***************************************************************************)
(* One HTTP/2 connection of c99-minimal-h2s: the Reader, the Multiplexer,  *)
(* the Writer and the request-handler tasks, with the channels between     *)
(* them (h2s/reader.go, h2s/multiplexer.go, h2s/writer.go).                *)
(*                                                                         *)
(* A payload is a sequence of words.  DATA and PING payloads are opaque;   *)
(* RST_STREAM carries <<code>>, GOAWAY <<last-stream-id, code>>,           *)
(* WINDOW_UPDATE <<increment>>, SETTINGS <<type, value, type, value ..>>.  *)
(* A header block is a sequence of tokens, see DecodeHeaderBlock.          *)
(* A flags byte is the set of its bits.                                    *)
(***************************************************************************)
EXTENDS Integers, Sequences, FiniteSets, TLC

\* ---------------------------------------------------------------- bounds
\* frames the client sends on one connection
MaxFrames == 3
\* frames the client sends when it exercises flow control
MaxFlowFrames == 4
\* stream ids the client uses: 0 .. MaxStreamID
MaxStreamID == 2
\* words of an encoded response header block
HdrBlockLen == 5
MaxHeaderFrames == 3
MaxSplitLen == 5
MaxSplitSize == 3
MaxHpackOps == 4
MaxPending == 3
LongLen == 130

\* ------------------------------------------------------ program constants
dataFrame == 0
headersFrame == 1
priorityFrame == 2
rstStreamFrame == 3
settingsFrame == 4
pushPromiseFrame == 5
pingFrame == 6
goAwayFrame == 7
windowUpdateFrame == 8
continuationFrame == 9

eosBit == 1
ackBit == eosBit
eohBit == 4
paddedBit == 8

headerTableSizeSetting == 1
initialWindowSizeSetting == 4
maxFrameSizeSetting == 5

protocolError == 1
internalError == 2
streamClosedError == 5
frameSizeError == 6
compressionError == 7

idleStream == 0
openStream == 1
halfClosedRemoteStream == 2
closedStream == 3

\* newWriter: capacity of writer.in, first max frame size, first window
WriterInCap == 1
InitMaxFrameSize == 16384
InitWindow == 65535
\* writer.run: the INITIAL_WINDOW_SIZE the server advertises
AdvertisedWindow == 2147483647
InitTableSize == 4096

StreamIDs == 0..MaxStreamID

\* ----------------------------------------------------------------- frames
Frame(t, fl, id, p) == [typ |-> t, flags |-> fl, sid |-> id, payload |-> p]

NoFrame == Frame(-1, {}, 0, <<>>)

eos(fl) == eosBit \in fl
ack(fl) == eos(fl)
eoh(fl) == eohBit \in fl

\* error.go: GOAWAY carries last-stream-id 0 until the Writer patches it
buildGoAwayFrame(code) == Frame(goAwayFrame, {}, 0, <<0, code>>)

buildRstStreamFrame(id, code) == Frame(rstStreamFrame, {}, id, <<code>>)

\* frame.go decodeSettingsParams: n = len/6 whole records, later ones win.
\* Here a record is two words, <<type, value>>.
RECURSIVE decodeParams(_, _)
decodeParams(p, acc) ==
    IF Len(p) < 2 THEN acc
    ELSE decodeParams(SubSeq(p, 3, Len(p)),
                      [k \in DOMAIN acc \cup {p[1]} |->
                          IF k = p[1] THEN p[2] ELSE acc[k]])

decodeSettingsParams(f) == decodeParams(f.payload, <<>>)

\* A frame is a stream closer when it ends its stream.
isStreamCloser(f) == eos(f.flags) \/ f.typ = rstStreamFrame

\* ----------------------------------------------------------------- Writer
\* The Writer's fields (writer.in is the variable win).  peer = FALSE is the
\* nil handle left by closePeer.
NewWriter ==
    [peer |-> TRUE, lastProcessed |-> 0, maxFrameSize |-> InitMaxFrameSize,
     initWindow |-> InitWindow, streamsWindow |-> <<>>, pendingData |-> <<>>]

\* A map read: the zero value for a missing key.
WindowOf(sw, id) == IF id \in DOMAIN sw THEN sw[id] ELSE 0

SetWindow(sw, id, v) ==
    [k \in DOMAIN sw \cup {id} |-> IF k = id THEN v ELSE sw[k]]

\* What a Writer step works on: the Writer w, the frames on the transport
\* (wire), how many more transport writes succeed in this step (quota, -1 =
\* all of them), whether a DATA frame went out above a window (over), and
\* whether the step panicked.
Step(w, wire, quota) ==
    [w |-> w, wire |-> wire, quota |-> quota, over |-> FALSE, panic |-> FALSE]

closePeer(T) == [T EXCEPT !.w.peer = FALSE]

RECURSIVE splitPayload(_, _)
splitPayload(p, size) ==
    IF Len(p) > size
    THEN <<SubSeq(p, 1, size)>> \o splitPayload(SubSeq(p, size + 1, Len(p)), size)
    ELSE IF Len(p) > 0 THEN <<p>> ELSE <<>>

\* splitFrame that forgets to turn the later chunks of a HEADERS frame into
\* CONTINUATION frames
splitFrameKeepsType(f, maxFrameSize) ==
    IF f.typ \notin {dataFrame, headersFrame} \/ Len(f.payload) <= maxFrameSize
    THEN <<f>>
    ELSE LET payloads == splitPayload(f.payload, maxFrameSize)
             n == Len(payloads)
         IN  [i \in 1..n |->
                Frame(f.typ,
                      IF f.typ = dataFrame
                      THEN IF i = n THEN f.flags ELSE {}
                      ELSE IF i = n THEN f.flags \cap {eohBit}
                           ELSE IF i = 1 THEN f.flags \cap {eosBit} ELSE {},
                      f.sid, payloads[i])]

splitFrame(f, maxFrameSize) ==
    IF f.typ \notin {dataFrame, headersFrame} \/ Len(f.payload) <= maxFrameSize
    THEN <<f>>
    ELSE LET payloads == splitPayload(f.payload, maxFrameSize)
             n == Len(payloads)
         IN  [i \in 1..n |->
                IF f.typ = dataFrame
                THEN Frame(dataFrame, IF i = n THEN f.flags ELSE {},
                           f.sid, payloads[i])
                ELSE Frame(IF i = 1 THEN headersFrame ELSE continuationFrame,
                           \* the last assignment wins when n = 1
                           IF i = n THEN f.flags \cap {eohBit}
                           ELSE IF i = 1 THEN f.flags \cap {eosBit} ELSE {},
                           f.sid, payloads[i])]

\* sendToPeer's loop over the split frames.
RECURSIVE sendFrames(_, _)
sendFrames(T, fs) ==
    IF fs = <<>> THEN T
    ELSE LET f == Head(fs) IN
         IF T.quota = 0 THEN closePeer(T)
         ELSE LET pLen == Len(f.payload)
                  sw == T.w.streamsWindow
                  sw0 == SetWindow(sw, 0, WindowOf(sw, 0) - pLen)
                  sw1 == SetWindow(sw0, f.sid, WindowOf(sw0, f.sid) - pLen)
                  T1 == [T EXCEPT !.wire = Append(@, f),
                                  !.quota = IF @ > 0 THEN @ - 1 ELSE @]
              IN  IF f.typ = dataFrame
                  THEN sendFrames(
                         [T1 EXCEPT !.w.streamsWindow = sw1,
                                    !.over = @ \/ pLen > WindowOf(sw, 0)
                                               \/ pLen > WindowOf(sw, f.sid)],
                         Tail(fs))
                  ELSE IF f.typ = goAwayFrame THEN closePeer(T1)
                  ELSE sendFrames(T1, Tail(fs))

\* sendToPeer without the test of the closed transport
sendToPeerNoCheck(T, f) ==
    LET T1 == IF isStreamCloser(f) /\ f.sid > T.w.lastProcessed
              THEN [T EXCEPT !.w.lastProcessed = f.sid] ELSE T
    IN  sendFrames(T1, splitFrame(f, T1.w.maxFrameSize))

\* writer.sendToPeer
sendToPeer(T, f) ==
    LET T1 == IF isStreamCloser(f) /\ f.sid > T.w.lastProcessed
              THEN [T EXCEPT !.w.lastProcessed = f.sid] ELSE T
    IN  IF ~T1.w.peer THEN T1
        ELSE IF /\ f.typ \in {dataFrame, headersFrame}
                /\ Len(f.payload) > T1.w.maxFrameSize
                /\ T1.w.maxFrameSize = 0
             \* splitPayload: len(p)/size with size = 0
             THEN [T1 EXCEPT !.panic = TRUE]
             ELSE sendFrames(T1, splitFrame(f, T1.w.maxFrameSize))

\* DataFits with the test of the stream's window left out
DataFitsConnOnly(sw, f) == WindowOf(sw, 0) >= Len(f.payload)

DataFits(sw, f) ==
    /\ WindowOf(sw, 0) >= Len(f.payload)
    /\ WindowOf(sw, f.sid) >= Len(f.payload)

RECURSIVE flushLoop(_, _, _)
flushLoop(T, pending, remain) ==
    IF pending = <<>> \/ T.panic THEN [T EXCEPT !.w.pendingData = remain \o pending]
    ELSE LET data == Head(pending) IN
         IF ~DataFits(T.w.streamsWindow, data)
         THEN flushLoop(T, Tail(pending), Append(remain, data))
         ELSE flushLoop(sendToPeer(T, data), Tail(pending), remain)

\* A drain that tests every queued frame against the windows as they were
\* when the drain began.
RECURSIVE flushLoopSnapshot(_, _, _, _)
flushLoopSnapshot(T, sw, pending, remain) ==
    IF pending = <<>> \/ T.panic THEN [T EXCEPT !.w.pendingData = remain \o pending]
    ELSE LET data == Head(pending) IN
         IF ~DataFits(sw, data)
         THEN flushLoopSnapshot(T, sw, Tail(pending), Append(remain, data))
         ELSE flushLoopSnapshot(sendToPeer(T, data), sw, Tail(pending), remain)

flushPendingDataSnapshot(T) ==
    flushLoopSnapshot(T, T.w.streamsWindow, T.w.pendingData, <<>>)

\* writer.flushPendingData
flushPendingData(T) == flushLoop(T, T.w.pendingData, <<>>)

\* handleFrame sending the part of a DATA payload that fits the windows and
\* deferring the rest
handleFramePartial(T, f) ==
    IF f.typ = dataFrame
    THEN LET sw == IF f.sid \in DOMAIN T.w.streamsWindow THEN T.w.streamsWindow
                   ELSE SetWindow(T.w.streamsWindow, f.sid, T.w.initWindow)
             T1 == [T EXCEPT !.w.streamsWindow = sw]
             n == Len(f.payload)
             room == IF WindowOf(sw, 0) < WindowOf(sw, f.sid)
                     THEN WindowOf(sw, 0) ELSE WindowOf(sw, f.sid)
         IN  IF room >= n THEN sendToPeer(T1, f)
             ELSE IF room <= 0 THEN [T1 EXCEPT !.w.pendingData = Append(@, f)]
             ELSE [sendToPeer(T1, Frame(dataFrame, {}, f.sid, SubSeq(f.payload, 1, room)))
                     EXCEPT !.w.pendingData =
                         Append(@, [f EXCEPT !.payload = SubSeq(f.payload, room + 1, n)])]
    ELSE IF f.typ = goAwayFrame
    THEN sendToPeer(T, [f EXCEPT !.payload[1] = T.w.lastProcessed])
    ELSE sendToPeer(T, f)

\* handleFrame without the patch of GOAWAY's last-stream-id
handleFrameNoPatch(T, f) ==
    IF f.typ = dataFrame
    THEN LET sw == IF f.sid \in DOMAIN T.w.streamsWindow THEN T.w.streamsWindow
                   ELSE SetWindow(T.w.streamsWindow, f.sid, T.w.initWindow)
             T1 == [T EXCEPT !.w.streamsWindow = sw]
         IN  IF ~DataFits(sw, f)
             THEN [T1 EXCEPT !.w.pendingData = Append(@, f)]
             ELSE sendToPeer(T1, f)
    ELSE sendToPeer(T, f)

\* writer.run, case f := <-w.in
handleFrame(T, f) ==
    IF f.typ = dataFrame
    THEN LET sw == IF f.sid \in DOMAIN T.w.streamsWindow THEN T.w.streamsWindow
                   ELSE SetWindow(T.w.streamsWindow, f.sid, T.w.initWindow)
             T1 == [T EXCEPT !.w.streamsWindow = sw]
         IN  IF ~DataFits(sw, f)
             THEN [T1 EXCEPT !.w.pendingData = Append(@, f)]
             ELSE sendToPeer(T1, f)
    ELSE IF f.typ = goAwayFrame
    THEN sendToPeer(T, [f EXCEPT !.payload[1] = T.w.lastProcessed])
    ELSE sendToPeer(T, f)

\* writer.run, case incr := <-w.window
handleIncr(T, id, value) ==
    LET sw == T.w.streamsWindow
        base == IF id \in DOMAIN sw THEN sw[id] ELSE T.w.initWindow
    IN  flushPendingData([T EXCEPT !.w.streamsWindow = SetWindow(sw, id, base + value)])

\* handleSettings that leaves the connection-level window as it is
handleSettingsStreamsOnly(T, params) ==
    LET T1 == IF initialWindowSizeSetting \in DOMAIN params
              THEN LET diff == params[initialWindowSizeSetting] - T.w.initWindow
                       sw == T.w.streamsWindow
                   IN  flushPendingData(
                         [T EXCEPT !.w.streamsWindow =
                                       [k \in DOMAIN sw |->
                                           IF k = 0 THEN sw[k] ELSE sw[k] + diff],
                                   !.w.initWindow = params[initialWindowSizeSetting]])
              ELSE T
        T2 == IF maxFrameSizeSetting \in DOMAIN params /\ ~T1.panic
              THEN [T1 EXCEPT !.w.maxFrameSize = params[maxFrameSizeSetting]]
              ELSE T1
    IN  IF T2.panic THEN T2
        ELSE sendToPeer(T2, Frame(settingsFrame, {ackBit}, 0, <<>>))

\* writer.run, case params := <-w.settings
handleSettings(T, params) ==
    LET T1 == IF initialWindowSizeSetting \in DOMAIN params
              THEN LET diff == params[initialWindowSizeSetting] - T.w.initWindow
                       sw == T.w.streamsWindow
                   IN  flushPendingData(
                         [T EXCEPT !.w.streamsWindow = [k \in DOMAIN sw |-> sw[k] + diff],
                                   !.w.initWindow = params[initialWindowSizeSetting]])
              ELSE T
        T2 == IF maxFrameSizeSetting \in DOMAIN params /\ ~T1.panic
              THEN [T1 EXCEPT !.w.maxFrameSize = params[maxFrameSizeSetting]]
              ELSE T1
    IN  IF T2.panic THEN T2
        ELSE sendToPeer(T2, Frame(settingsFrame, {ackBit}, 0, <<>>))

\* ------------------------------------------------------------ Multiplexer
\* Header-block words.  BadTok cannot be decoded; PseudoTok stands for the
\* fields :method, :path and :authority of a well-formed request; MalTok for
\* the three with values http.ReadRequest rejects; FieldTok for any other
\* field.
BadTok == 0
PseudoTok == 1
MalTok == 2
FieldTok == 3

\* hpack.DecodeHeaderBlock: the header list, or an error
DecodeFails(block) == \E i \in DOMAIN block : block[i] = BadTok

\* buildRequest: Get(":method") and the others return nil when absent and
\* Value() on nil panics; http.ReadRequest returns the error.
buildRequest(headers) ==
    IF \E i \in DOMAIN headers : headers[i] = MalTok THEN "err"
    ELSE IF \E i \in DOMAIN headers : headers[i] = PseudoTok THEN "ok"
    ELSE "panic"

NewStream(st) == [state |-> st, headers |-> <<>>, body |-> 0]

\* streamCollection.get
get(c, id) ==
    IF id <= c.maxID
    THEN IF id \in DOMAIN c.entries THEN c.entries[id] ELSE NewStream(closedStream)
    ELSE NewStream(idleStream)

\* streamCollection.save
save(c, id, s) ==
    [entries |-> [k \in DOMAIN c.entries \cup {id} |->
                     IF k = id THEN s ELSE c.entries[k]],
     maxID |-> IF c.maxID < id THEN id ELSE c.maxID]

\* streamCollection.close
close(c, id) ==
    [c EXCEPT !.entries = [k \in DOMAIN c.entries \ {id} |-> c.entries[k]]]

\* get returns a pointer: a change to a stored stream is a change in place.
update(c, id, s) ==
    IF id <= c.maxID /\ id \in DOMAIN c.entries
    THEN [c EXCEPT !.entries[id] = s] ELSE c

\* canAccept without the case of the half-closed (remote) state
canAcceptNoHalfClosed(s, f) ==
    IF s.state = idleStream
    THEN IF f.typ # headersFrame THEN protocolError ELSE 0
    ELSE IF s.state \in {openStream, halfClosedRemoteStream} THEN 0
    ELSE IF f.typ # windowUpdateFrame /\ f.typ # rstStreamFrame
         THEN streamClosedError ELSE 0

\* canAccept without the case of the idle state
canAcceptNoIdle(s, f) ==
    IF s.state \in {idleStream, openStream} THEN 0
    ELSE IF f.typ # windowUpdateFrame /\ f.typ # rstStreamFrame
         THEN streamClosedError ELSE 0

\* stream.canAccept: 0 for nil, or the error's code
canAccept(s, f) ==
    IF s.state = idleStream
    THEN IF f.typ # headersFrame THEN protocolError ELSE 0
    ELSE IF s.state = openStream THEN 0
    ELSE IF f.typ # windowUpdateFrame /\ f.typ # rstStreamFrame
         THEN streamClosedError ELSE 0

\* What the Multiplexer hands to the Writer: a frame on writer.in, a
\* parameter map on writer.settings or an increment on writer.window.
FrameMsg(f) == [kind |-> "frame", frame |-> f, params |-> <<>>, id |-> 0, value |-> 0]
SettingsMsg(ps) == [kind |-> "settings", frame |-> NoFrame, params |-> ps, id |-> 0, value |-> 0]
IncrMsg(i, v) == [kind |-> "incr", frame |-> NoFrame, params |-> <<>>, id |-> i, value |-> v]

\* The result of one Multiplexer handler: its fields (streams c, running
\* handlers n), the handler task it spawned (spawn, -1 for none), what it
\* writes (out), whether run returns (exit) and whether it panicked.
MuxResult(c, n, spawn, out, exit, panic) ==
    [c |-> c, n |-> n, spawn |-> spawn, out |-> out, exit |-> exit, panic |-> panic]

\* multiplexer.runHandler
runHandler(c, n, id, s) ==
    LET req == buildRequest(s.headers) IN
    IF req = "panic" THEN MuxResult(c, n, -1, <<>>, TRUE, TRUE)
    ELSE IF req = "err"
    THEN MuxResult(close(c, id), n, -1,
                   <<FrameMsg(buildRstStreamFrame(id, protocolError))>>, FALSE, FALSE)
    ELSE MuxResult(save(c, id, [s EXCEPT !.state = halfClosedRemoteStream]),
                   n + 1, id, <<>>, FALSE, FALSE)

\* multiplexer.run, case f := <-mp.in
multiplexFrame(c, n, f) ==
    LET err == IF f.sid # 0 THEN canAccept(get(c, f.sid), f) ELSE 0 IN
    IF err = protocolError
    THEN MuxResult(c, n, -1, <<FrameMsg(buildGoAwayFrame(protocolError))>>, TRUE, FALSE)
    ELSE IF err # 0
    THEN MuxResult(close(c, f.sid), n, -1,
                   <<FrameMsg(buildRstStreamFrame(f.sid, err))>>, FALSE, FALSE)
    ELSE IF f.typ = dataFrame
    THEN LET s == [get(c, f.sid) EXCEPT !.body = @ + 1]
             c1 == update(c, f.sid, s)
         IN  IF eos(f.flags) THEN runHandler(c1, n, f.sid, s)
             ELSE MuxResult(c1, n, -1, <<>>, FALSE, FALSE)
    ELSE IF f.typ = headersFrame
    THEN IF DecodeFails(f.payload)
         THEN MuxResult(c, n, -1, <<FrameMsg(buildGoAwayFrame(compressionError))>>,
                        TRUE, FALSE)
         ELSE LET s == [get(c, f.sid) EXCEPT !.headers = @ \o f.payload]
                  c1 == update(c, f.sid, s)
              IN  IF eos(f.flags) THEN runHandler(c1, n, f.sid, s)
                  ELSE MuxResult(save(c1, f.sid, [s EXCEPT !.state = openStream]),
                                 n, -1, <<>>, FALSE, FALSE)
    ELSE IF f.typ = rstStreamFrame
    \* binary.BigEndian.Uint32 panics on a payload shorter than the code
    THEN IF Len(f.payload) < 1 THEN MuxResult(c, n, -1, <<>>, TRUE, TRUE)
         ELSE MuxResult(close(c, f.sid), n, -1, <<>>, FALSE, FALSE)
    ELSE IF f.typ = settingsFrame
    THEN MuxResult(c, n, -1, <<SettingsMsg(decodeSettingsParams(f))>>, FALSE, FALSE)
    ELSE IF f.typ = windowUpdateFrame
    THEN IF Len(f.payload) < 1 THEN MuxResult(c, n, -1, <<>>, TRUE, TRUE)
         ELSE MuxResult(c, n, -1, <<IncrMsg(f.sid, f.payload[1])>>, FALSE, FALSE)
    ELSE MuxResult(c, n, -1, <<>>, FALSE, FALSE)

\* A handler's response: the body is -1 when the handler never called Write
\* (responseWriter.body stays nil), else the number of bytes written.
Words(n) == [i \in 1..n |-> FieldTok]

\* buildFrames with the DATA frame in front of the HEADERS frame
buildFramesDataFirst(id, body) ==
    IF body = 0
    THEN <<Frame(headersFrame, {eohBit, eosBit}, id, Words(HdrBlockLen))>>
    ELSE <<Frame(dataFrame, {eosBit}, id, Words(body)),
           Frame(headersFrame, {eohBit}, id, Words(HdrBlockLen))>>

\* responseWriter.buildFrames
buildFrames(id, body) ==
    IF body = 0
    THEN <<Frame(headersFrame, {eohBit, eosBit}, id, Words(HdrBlockLen))>>
    ELSE <<Frame(headersFrame, {eohBit}, id, Words(HdrBlockLen)),
           Frame(dataFrame, {eosBit}, id, Words(body))>>

\* multiplexer.writeResponse
writeResponse(c, n, id, body) ==
    IF get(c, id).state # halfClosedRemoteStream
    THEN MuxResult(close(c, id), n - 1, -1, <<>>, FALSE, FALSE)
    \* res.body.Bytes() on the nil buffer
    ELSE IF body < 0 THEN MuxResult(close(c, id), n - 1, -1, <<>>, TRUE, TRUE)
    ELSE MuxResult(close(c, id), n - 1, -1,
                   [i \in DOMAIN buildFrames(id, body) |->
                       FrameMsg(buildFrames(id, body)[i])],
                   FALSE, FALSE)

\* ----------------------------------------------------------------- Reader
\* mergeHeaders: the payloads of frames[1:] are appended
RECURSIVE concatPayloads(_)
concatPayloads(frames) ==
    IF frames = <<>> THEN <<>>
    ELSE Head(frames).payload \o concatPayloads(Tail(frames))

mergeHeaders(frames) ==
    Frame(headersFrame, (frames[1].flags \cap {eosBit}) \cup {eohBit},
          frames[1].sid, concatPayloads(Tail(frames)))

\* What one pass of the Reader's loop decides: the fragment buffer, where the
\* Reader goes ("read", "toMux", "toWriter", "done", "panic"), the frame it
\* sends there, and whether it returns once the frame is sent.
ReadResult(buf, pc, out, ret) == [buf |-> buf, pc |-> pc, out |-> out, ret |-> ret]

GoAwayResult(buf) == ReadResult(buf, "toWriter", buildGoAwayFrame(protocolError), TRUE)

\* runReader, the body of the loop after readFrame returned f
readerStep(buf, f) ==
    IF Len(buf) > 0 /\ f.typ # continuationFrame THEN GoAwayResult(buf)
    ELSE IF f.typ > continuationFrame THEN ReadResult(buf, "read", NoFrame, FALSE)
    ELSE IF f.typ = headersFrame /\ ~eoh(f.flags)
    THEN ReadResult(Append(buf, f), "read", NoFrame, FALSE)
    ELSE IF f.typ = priorityFrame THEN ReadResult(buf, "read", NoFrame, FALSE)
    ELSE IF f.typ = settingsFrame /\ ack(f.flags)
    THEN ReadResult(buf, "read", NoFrame, FALSE)
    ELSE IF f.typ = pushPromiseFrame THEN GoAwayResult(buf)
    ELSE IF f.typ = pingFrame
    THEN IF ~ack(f.flags)
         THEN ReadResult(buf, "toWriter", [f EXCEPT !.flags = {ackBit}], FALSE)
         ELSE ReadResult(buf, "read", NoFrame, FALSE)
    ELSE IF f.typ = goAwayFrame
    \* f.payload[4:] and f.payload[8:] panic on a payload without the code
    THEN IF Len(f.payload) < 2 THEN ReadResult(buf, "panic", NoFrame, TRUE)
         ELSE ReadResult(buf, "done", NoFrame, TRUE)
    ELSE IF f.typ = continuationFrame
    THEN IF Len(buf) = 0 \/ buf[1].sid # f.sid THEN GoAwayResult(buf)
         ELSE IF eoh(f.flags)
         THEN ReadResult(<<>>, "toMux", mergeHeaders(Append(buf, f)), FALSE)
         ELSE ReadResult(Append(buf, f), "toMux", f, FALSE)
    ELSE ReadResult(buf, "toMux", f, FALSE)

\* ------------------------------------------------------------------ hpack
\* Bytes are 0..255 and strings are sequences of bytes.  A *HeaderField is a
\* record, NilField the nil pointer.  A function that can fail returns a
\* record whose kind is "ok", "err" (it returned an error) or "panic" (an index
\* out of range or a nil dereference, which ends the process).
NewHeaderField(name, value) == [nil |-> FALSE, name |-> name, value |-> value]

NilField == [nil |-> TRUE, name |-> <<>>, value |-> <<>>]

\* HeaderField.Size
Size(hf) == Len(hf.name) + Len(hf.value) + 32

staticTable == <<
    \* 1: :authority
    NewHeaderField(<<58, 97, 117, 116, 104, 111, 114, 105, 116, 121>>,
                   <<>>),
    \* 2: :method = GET
    NewHeaderField(<<58, 109, 101, 116, 104, 111, 100>>,
                   <<71, 69, 84>>),
    \* 3: :method = POST
    NewHeaderField(<<58, 109, 101, 116, 104, 111, 100>>,
                   <<80, 79, 83, 84>>),
    \* 4: :path = /
    NewHeaderField(<<58, 112, 97, 116, 104>>,
                   <<47>>),
    \* 5: :path = /index.html
    NewHeaderField(<<58, 112, 97, 116, 104>>,
                   <<47, 105, 110, 100, 101, 120, 46, 104, 116, 109, 108>>),
    \* 6: :scheme = http
    NewHeaderField(<<58, 115, 99, 104, 101, 109, 101>>,
                   <<104, 116, 116, 112>>),
    \* 7: :scheme = https
    NewHeaderField(<<58, 115, 99, 104, 101, 109, 101>>,
                   <<104, 116, 116, 112, 115>>),
    \* 8: :status = 200
    NewHeaderField(<<58, 115, 116, 97, 116, 117, 115>>,
                   <<50, 48, 48>>),
    \* 9: :status = 204
    NewHeaderField(<<58, 115, 116, 97, 116, 117, 115>>,
                   <<50, 48, 52>>),
    \* 10: :status = 206
    NewHeaderField(<<58, 115, 116, 97, 116, 117, 115>>,
                   <<50, 48, 54>>),
    \* 11: :status = 304
    NewHeaderField(<<58, 115, 116, 97, 116, 117, 115>>,
                   <<51, 48, 52>>),
    \* 12: :status = 400
    NewHeaderField(<<58, 115, 116, 97, 116, 117, 115>>,
                   <<52, 48, 48>>),
    \* 13: :status = 404
    NewHeaderField(<<58, 115, 116, 97, 116, 117, 115>>,
                   <<52, 48, 52>>),
    \* 14: :status = 500
    NewHeaderField(<<58, 115, 116, 97, 116, 117, 115>>,
                   <<53, 48, 48>>),
    \* 15: accept-charset
    NewHeaderField(<<97, 99, 99, 101, 112, 116, 45, 99, 104, 97, 114, 115, 101, 116>>,
                   <<>>),
    \* 16: accept-encoding = gzip, deflate
    NewHeaderField(<<97, 99, 99, 101, 112, 116, 45, 101, 110, 99, 111, 100, 105, 110, 103>>,
                   <<103, 122, 105, 112, 44, 32, 100, 101, 102, 108, 97, 116, 101>>),
    \* 17: accept-language
    NewHeaderField(<<97, 99, 99, 101, 112, 116, 45, 108, 97, 110, 103, 117, 97, 103, 101>>,
                   <<>>),
    \* 18: accept-ranges
    NewHeaderField(<<97, 99, 99, 101, 112, 116, 45, 114, 97, 110, 103, 101, 115>>,
                   <<>>),
    \* 19: accept
    NewHeaderField(<<97, 99, 99, 101, 112, 116>>,
                   <<>>),
    \* 20: access-control-allow-origin
    NewHeaderField(<<97, 99, 99, 101, 115, 115, 45, 99, 111, 110, 116, 114, 111, 108, 45, 97, 108, 108, 111, 119, 45, 111, 114, 105, 103, 105, 110>>,
                   <<>>),
    \* 21: age
    NewHeaderField(<<97, 103, 101>>,
                   <<>>),
    \* 22: allow
    NewHeaderField(<<97, 108, 108, 111, 119>>,
                   <<>>),
    \* 23: authorization
    NewHeaderField(<<97, 117, 116, 104, 111, 114, 105, 122, 97, 116, 105, 111, 110>>,
                   <<>>),
    \* 24: cache-control
    NewHeaderField(<<99, 97, 99, 104, 101, 45, 99, 111, 110, 116, 114, 111, 108>>,
                   <<>>),
    \* 25: content-disposition
    NewHeaderField(<<99, 111, 110, 116, 101, 110, 116, 45, 100, 105, 115, 112, 111, 115, 105, 116, 105, 111, 110>>,
                   <<>>),
    \* 26: content-encoding
    NewHeaderField(<<99, 111, 110, 116, 101, 110, 116, 45, 101, 110, 99, 111, 100, 105, 110, 103>>,
                   <<>>),
    \* 27: content-language
    NewHeaderField(<<99, 111, 110, 116, 101, 110, 116, 45, 108, 97, 110, 103, 117, 97, 103, 101>>,
                   <<>>),
    \* 28: content-length
    NewHeaderField(<<99, 111, 110, 116, 101, 110, 116, 45, 108, 101, 110, 103, 116, 104>>,
                   <<>>),
    \* 29: content-location
    NewHeaderField(<<99, 111, 110, 116, 101, 110, 116, 45, 108, 111, 99, 97, 116, 105, 111, 110>>,
                   <<>>),
    \* 30: content-range
    NewHeaderField(<<99, 111, 110, 116, 101, 110, 116, 45, 114, 97, 110, 103, 101>>,
                   <<>>),
    \* 31: content-type
    NewHeaderField(<<99, 111, 110, 116, 101, 110, 116, 45, 116, 121, 112, 101>>,
                   <<>>),
    \* 32: cookie
    NewHeaderField(<<99, 111, 111, 107, 105, 101>>,
                   <<>>),
    \* 33: date
    NewHeaderField(<<100, 97, 116, 101>>,
                   <<>>),
    \* 34: etag
    NewHeaderField(<<101, 116, 97, 103>>,
                   <<>>),
    \* 35: expect
    NewHeaderField(<<101, 120, 112, 101, 99, 116>>,
                   <<>>),
    \* 36: expires
    NewHeaderField(<<101, 120, 112, 105, 114, 101, 115>>,
                   <<>>),
    \* 37: from
    NewHeaderField(<<102, 114, 111, 109>>,
                   <<>>),
    \* 38: host
    NewHeaderField(<<104, 111, 115, 116>>,
                   <<>>),
    \* 39: if-match
    NewHeaderField(<<105, 102, 45, 109, 97, 116, 99, 104>>,
                   <<>>),
    \* 40: if-modified-since
    NewHeaderField(<<105, 102, 45, 109, 111, 100, 105, 102, 105, 101, 100, 45, 115, 105, 110, 99, 101>>,
                   <<>>),
    \* 41: if-none-match
    NewHeaderField(<<105, 102, 45, 110, 111, 110, 101, 45, 109, 97, 116, 99, 104>>,
                   <<>>),
    \* 42: if-range
    NewHeaderField(<<105, 102, 45, 114, 97, 110, 103, 101>>,
                   <<>>),
    \* 43: if-unmodified-since
    NewHeaderField(<<105, 102, 45, 117, 110, 109, 111, 100, 105, 102, 105, 101, 100, 45, 115, 105, 110, 99, 101>>,
                   <<>>),
    \* 44: last-modified
    NewHeaderField(<<108, 97, 115, 116, 45, 109, 111, 100, 105, 102, 105, 101, 100>>,
                   <<>>),
    \* 45: link
    NewHeaderField(<<108, 105, 110, 107>>,
                   <<>>),
    \* 46: location
    NewHeaderField(<<108, 111, 99, 97, 116, 105, 111, 110>>,
                   <<>>),
    \* 47: max-forwards
    NewHeaderField(<<109, 97, 120, 45, 102, 111, 114, 119, 97, 114, 100, 115>>,
                   <<>>),
    \* 48: proxy-authenticate
    NewHeaderField(<<112, 114, 111, 120, 121, 45, 97, 117, 116, 104, 101, 110, 116, 105, 99, 97, 116, 101>>,
                   <<>>),
    \* 49: proxy-authorization
    NewHeaderField(<<112, 114, 111, 120, 121, 45, 97, 117, 116, 104, 111, 114, 105, 122, 97, 116, 105, 111, 110>>,
                   <<>>),
    \* 50: range
    NewHeaderField(<<114, 97, 110, 103, 101>>,
                   <<>>),
    \* 51: referer
    NewHeaderField(<<114, 101, 102, 101, 114, 101, 114>>,
                   <<>>),
    \* 52: refresh
    NewHeaderField(<<114, 101, 102, 114, 101, 115, 104>>,
                   <<>>),
    \* 53: retry-after
    NewHeaderField(<<114, 101, 116, 114, 121, 45, 97, 102, 116, 101, 114>>,
                   <<>>),
    \* 54: server
    NewHeaderField(<<115, 101, 114, 118, 101, 114>>,
                   <<>>),
    \* 55: set-cookie
    NewHeaderField(<<115, 101, 116, 45, 99, 111, 111, 107, 105, 101>>,
                   <<>>),
    \* 56: strict-transport-security
    NewHeaderField(<<115, 116, 114, 105, 99, 116, 45, 116, 114, 97, 110, 115, 112, 111, 114, 116, 45, 115, 101, 99, 117, 114, 105, 116, 121>>,
                   <<>>),
    \* 57: transfer-encoding
    NewHeaderField(<<116, 114, 97, 110, 115, 102, 101, 114, 45, 101, 110, 99, 111, 100, 105, 110, 103>>,
                   <<>>),
    \* 58: user-agent
    NewHeaderField(<<117, 115, 101, 114, 45, 97, 103, 101, 110, 116>>,
                   <<>>),
    \* 59: vary
    NewHeaderField(<<118, 97, 114, 121>>,
                   <<>>),
    \* 60: via
    NewHeaderField(<<118, 105, 97>>,
                   <<>>),
    \* 61: www-authenticate
    NewHeaderField(<<119, 119, 119, 45, 97, 117, 116, 104, 101, 110, 116, 105, 99, 97, 116, 101>>,
                   <<>>)
>>

staticTableLen == Len(staticTable)

NewIndexTable(allowedTableSize) ==
    [allowedTableSize |-> allowedTableSize, maxTableSize |-> allowedTableSize,
     tableSize |-> 0, dynamicTable |-> <<>>]

TableResult(kind, t) == [kind |-> kind, t |-> t]

\* evict, the loop that counts the entries to drop: t.dynamicTable[drop] is
\* out of range past the end and Size() dereferences a nil entry
RECURSIVE evictLoop(_, _)
evictLoop(t, drop) ==
    IF t.tableSize > t.maxTableSize
    THEN IF drop >= Len(t.dynamicTable) \/ t.dynamicTable[drop + 1].nil
         THEN [t |-> t, drop |-> drop, panic |-> TRUE]
         ELSE evictLoop([t EXCEPT !.tableSize = @ - Size(t.dynamicTable[drop + 1])],
                        drop + 1)
    ELSE [t |-> t, drop |-> drop, panic |-> FALSE]

\* evict after its loop L: the entries that stay are copied to the front and
\* the last drop slots are set to nil; the slice keeps its length
evictCopy(L) ==
    IF L.panic THEN TableResult("panic", L.t)
    ELSE IF L.drop = 0 THEN TableResult("ok", L.t)
    ELSE TableResult("ok",
             [L.t EXCEPT !.dynamicTable =
                 [i \in 1..Len(@) |-> IF i <= Len(@) - L.drop
                                      THEN @[i + L.drop] ELSE NilField]])

\* IndexTable.evict
evict(t) == evictCopy(evictLoop(t, 0))

\* IndexTable.UpdateAllowedTableSize
UpdateAllowedTableSize(t, size) ==
    evict([t EXCEPT !.allowedTableSize = size,
                    !.maxTableSize = IF @ > size THEN size ELSE @])

\* IndexTable.updateMaxTableSize
updateMaxTableSize(t, size) ==
    IF size > t.allowedTableSize THEN TableResult("err", t)
    ELSE evict([t EXCEPT !.maxTableSize = size])

\* add that leaves the eviction out
addNoEvict(t, h) ==
    TableResult("ok", [t EXCEPT !.dynamicTable = Append(@, h),
                                !.tableSize = @ + Size(h)])

\* IndexTable.add
add(t, h) ==
    evict([t EXCEPT !.dynamicTable = Append(@, h), !.tableSize = @ + Size(h)])

FieldResult(kind, hf, rest) == [kind |-> kind, hf |-> hf, rest |-> rest]

\* IndexTable.get, the dynamic table: t.dynamicTable[dIdx] is out of range
\* for an index of 0
getDynamic(t, dIdx) ==
    IF dIdx < 0 THEN FieldResult("err", NilField, <<>>)
    ELSE IF dIdx >= Len(t.dynamicTable) THEN FieldResult("panic", NilField, <<>>)
    ELSE FieldResult("ok", t.dynamicTable[dIdx + 1], <<>>)

\* IndexTable.get
IndexTable_get(t, index) ==
    IF index > 0 /\ index <= staticTableLen
    THEN FieldResult("ok", staticTable[index], <<>>)
    ELSE getDynamic(t, Len(t.dynamicTable) - (index - staticTableLen))

\* ---- uint64
\* A uint64 is kept as its ten digits to the base 128, the lowest first; the
\* tenth digit is bit 63 alone.  (The model checker's own integers end at
\* 2^31.)
U64Digits == 64 \div 7 + 1

\* the digits x[1] .. x[10] written out as a sequence
Digits(x) == SubSeq(x, 1, U64Digits)

\* uint64(n) for an int n of 0 .. 2^31 - 1
U64(n) ==
    Digits([i \in 1..U64Digits |->
               IF i <= 5 THEN (n \div 128^(i - 1)) % 128 ELSE 0])

\* int(x): the number itself up to 2^28; above that a number larger than
\* every length and index of this model, and a negative number from 2^63 on
toInt(x) ==
    IF x[U64Digits] = 1 THEN 0 - 2^30
    ELSE IF \E i \in 5..(U64Digits - 1) : x[i] # 0 THEN 2^30
    ELSE x[1] + 128 * x[2] + 128^2 * x[3] + 128^3 * x[4]

\* the modulus of digit i
DigitMod(i) == IF i = U64Digits THEN 2 ELSE 128

\* the carry of a + b into digit i: a lower digit overflows and every digit
\* between hands the carry on
Carry(a, b, i) ==
    IF \E j \in 1..(i - 1) :
          /\ a[j] + b[j] >= 128
          /\ \A k \in (j + 1)..(i - 1) : a[k] + b[k] >= 127
    THEN 1 ELSE 0

\* a + b on uint64
Add64(a, b) ==
    Digits([i \in 1..U64Digits |->
               (a[i] + b[i] + Carry(a, b, i)) % DigitMod(i)])

\* the borrow of a - b out of digit i
Borrow(a, b, i) ==
    IF \E j \in 1..(i - 1) :
          /\ a[j] < b[j]
          /\ \A k \in (j + 1)..(i - 1) : a[k] <= b[k]
    THEN 1 ELSE 0

\* a - b on uint64
Sub64(a, b) ==
    Digits([i \in 1..U64Digits |->
               (a[i] - b[i] - Borrow(a, b, i)) % DigitMod(i)])

\* a < b, decided by the highest digit in which they differ
Less64(a, b) ==
    \E i \in 1..U64Digits :
       a[i] < b[i] /\ \A k \in (i + 1)..U64Digits : a[k] = b[k]

\* uint64(d) << shift for a d below 128 and a shift of 0, 7 .. 63
Shl64(d, shift) ==
    Digits([i \in 1..U64Digits |->
               IF i # shift \div 7 + 1 THEN 0
               ELSE IF i = U64Digits THEN d % 2 ELSE d])

\* x >> 7
Shr7(x) == Digits([i \in 1..U64Digits |-> IF i < U64Digits THEN x[i + 1] ELSE 0])

IntResult(kind, value, rest) == [kind |-> kind, value |-> value, rest |-> rest]

\* decodeInt, the loop over the continuation bytes: block[offset] is out of
\* range when the block ends before the integer does
RECURSIVE decodeIntLoop(_, _, _, _, _)
decodeIntLoop(block, prefixed, offset, value, shift) ==
    IF shift > 64 THEN IntResult("err", U64(0), <<>>)
    ELSE IF offset >= Len(block) THEN IntResult("panic", U64(0), <<>>)
    ELSE IF block[offset + 1] < 128
    THEN IntResult("ok",
                   Add64(Add64(value, Shl64(block[offset + 1], shift)), prefixed),
                   SubSeq(block, offset + 2, Len(block)))
    ELSE decodeIntLoop(block, prefixed, offset + 1,
                       Add64(value, Shl64(block[offset + 1] % 128, shift)),
                       shift + 7)

\* decodeInt: block[0] is out of range on an empty block
decodeInt(block, prefix) ==
    IF block = <<>> THEN IntResult("panic", U64(0), <<>>)
    ELSE IF block[1] % 2^prefix < 2^prefix - 1
    THEN IntResult("ok", U64(block[1] % 2^prefix), Tail(block))
    ELSE decodeIntLoop(block, U64(block[1] % 2^prefix), 1, U64(0), 0)

\* encodeInt, the loop over the groups of seven bits of i
RECURSIVE encodeIntLoop(_, _)
encodeIntLoop(dst, i) ==
    IF ~Less64(i, U64(128))
    THEN encodeIntLoop(Append(dst, 128 + i[1]), Shr7(i))
    ELSE Append(dst, i[1])

\* encodeInt without the subtraction of the prefix's maximum
encodeIntNoSub(dst, i, prefix) ==
    IF Less64(i, U64(2^prefix - 1)) THEN Append(dst, toInt(i))
    ELSE encodeIntLoop(Append(dst, 2^prefix - 1), i)

\* encodeInt
encodeInt(dst, i, prefix) ==
    IF Less64(i, U64(2^prefix - 1)) THEN Append(dst, toInt(i))
    ELSE encodeIntLoop(Append(dst, 2^prefix - 1), Sub64(i, U64(2^prefix - 1)))

\* encodeStr
encodeStr(dst, str) == encodeInt(dst, U64(Len(str)), 7) \o str

StrResult(kind, str, rest) == [kind |-> kind, str |-> str, rest |-> rest]

\* decodeHuffman: the empty string decodes to itself.  The code tree is not
\* part of this model: a string with code bits ends the decoding with the
\* kind "huffman", which no block decoded here reaches.
decodeHuffman(compressed) ==
    IF compressed = <<>> THEN StrResult("ok", <<>>, <<>>)
    ELSE StrResult("huffman", <<>>, <<>>)

\* decodeStr after decodeHuffman returned h
decodeStrHuffman(h, rest) ==
    IF h.kind # "ok" THEN StrResult(h.kind, <<>>, <<>>)
    ELSE StrResult("ok", h.str, rest)

\* decodeStr with the length strLen: remain[0:strLen] or remain[strLen:] is
\* out of range when the block is shorter than the string
decodeStrLen(compressed, strLen, remain) ==
    IF strLen > Len(remain) \/ strLen < 0 THEN StrResult("panic", <<>>, <<>>)
    ELSE IF ~compressed
    THEN StrResult("ok", SubSeq(remain, 1, strLen),
                   SubSeq(remain, strLen + 1, Len(remain)))
    ELSE decodeStrHuffman(decodeHuffman(SubSeq(remain, 1, strLen)),
                          SubSeq(remain, strLen + 1, Len(remain)))

\* decodeStr after decodeInt returned r
decodeStrBytes(compressed, r) ==
    IF r.kind # "ok" THEN StrResult(r.kind, <<>>, <<>>)
    ELSE decodeStrLen(compressed, toInt(r.value), r.rest)

\* decodeStr: block[0] is out of range on an empty block
decodeStr(block) ==
    IF block = <<>> THEN StrResult("panic", <<>>, <<>>)
    ELSE decodeStrBytes(block[1] >= 128, decodeInt(block, 7))

\* decodeIndexHeaderField after t.get returned g
indexField(g, rest) ==
    IF g.kind # "ok" THEN FieldResult(g.kind, NilField, <<>>)
    ELSE FieldResult("ok", g.hf, rest)

\* decodeIndexHeaderField after decodeInt returned r
indexAfterInt(t, r) ==
    IF r.kind # "ok" THEN FieldResult(r.kind, NilField, <<>>)
    ELSE indexField(IndexTable_get(t, toInt(r.value)), r.rest)

decodeIndexHeaderField(t, block) == indexAfterInt(t, decodeInt(block, 7))

\* decodeLiteralHeaderField with a name index, after t.get returned g:
\* hf.Name() dereferences the entry
literalNamed(g, s) ==
    IF g.kind # "ok" THEN FieldResult(g.kind, NilField, <<>>)
    ELSE IF g.hf.nil THEN FieldResult("panic", NilField, <<>>)
    ELSE FieldResult("ok", NewHeaderField(g.hf.name, s.str), s.rest)

\* decodeLiteralHeaderField with a new name s, after the second decodeStr
\* returned v
literalNew(s, v) ==
    IF v.kind # "ok" THEN FieldResult(v.kind, NilField, <<>>)
    ELSE FieldResult("ok", NewHeaderField(s.str, v.str), v.rest)

\* decodeLiteralHeaderField after the first decodeStr returned s
literalAfterStr(t, index, s) ==
    IF s.kind # "ok" THEN FieldResult(s.kind, NilField, <<>>)
    ELSE IF Less64(U64(0), index)
    THEN literalNamed(IndexTable_get(t, toInt(index)), s)
    ELSE literalNew(s, decodeStr(s.rest))

\* decodeLiteralHeaderField after decodeInt returned r
literalAfterInt(t, r) ==
    IF r.kind # "ok" THEN FieldResult(r.kind, NilField, <<>>)
    ELSE literalAfterStr(t, r.value, decodeStr(r.rest))

decodeLiteralHeaderField(t, block, prefix) ==
    literalAfterInt(t, decodeInt(block, prefix))

\* DecodeHeaderBlock, one pass of the loop: the instruction at the head of
\* the block, with the table after it, the rest of the block and the fields
\* it adds to the list.
InstrResult(kind, t, rest, fields) ==
    [kind |-> kind, t |-> t, rest |-> rest, fields |-> fields]

\* an indexed field or a literal field without indexing, decoded to r
fieldInstr(t, r) ==
    IF r.kind # "ok" THEN InstrResult(r.kind, t, <<>>, <<>>)
    ELSE InstrResult("ok", t, r.rest, <<r.hf>>)

\* a literal field with indexing, decoded to r, after t.add returned a
addedInstr(a, r) == InstrResult(a.kind, a.t, r.rest, <<r.hf>>)

\* a literal field with indexing, decoded to r
addInstr(t, r) ==
    IF r.kind # "ok" THEN InstrResult(r.kind, t, <<>>, <<>>)
    ELSE addedInstr(add(t, r.hf), r)

\* a size update after t.updateMaxTableSize returned u
sizeUpdated(u, r) == InstrResult(u.kind, u.t, r.rest, <<>>)

\* a size update whose size decodeInt decoded to r; the error of decodeInt is
\* dropped: the size is then 0 and the rest of the block empty
sizeInstr(t, r) ==
    IF r.kind = "panic" THEN InstrResult("panic", t, <<>>, <<>>)
    ELSE sizeUpdated(updateMaxTableSize(t, toInt(r.value)), r)

\* DecodeHeaderBlock's switch with t.add(hf) in its default case too
decodeInstructionAddsAll(t, block) ==
    IF block[1] >= 128 THEN fieldInstr(t, decodeIndexHeaderField(t, block))
    ELSE IF block[1] >= 64 THEN addInstr(t, decodeLiteralHeaderField(t, block, 6))
    ELSE IF block[1] >= 32 THEN sizeInstr(t, decodeInt(block, 5))
    ELSE addInstr(t, decodeLiteralHeaderField(t, block, 4))

decodeInstruction(t, block) ==
    IF block[1] >= 128 THEN fieldInstr(t, decodeIndexHeaderField(t, block))
    ELSE IF block[1] >= 64 THEN addInstr(t, decodeLiteralHeaderField(t, block, 6))
    ELSE IF block[1] >= 32 THEN sizeInstr(t, decodeInt(block, 5))
    ELSE fieldInstr(t, decodeLiteralHeaderField(t, block, 4))

\* ------------------------------------------------------------ the client
\* The frames a client sends are drawn from a small alphabet.  StreamFrames
\* exercises the stream life cycle and the shutdown paths, FlowFrames the
\* send windows (the numbers are those of the flow-control stall scenario:
\* INITIAL_WINDOW_SIZE 5, a 10-byte body, increments of 5).
Request(fl, id) == Frame(headersFrame, fl \cup {eohBit}, id, <<PseudoTok>>)

StreamFrames ==
    { Frame(dataFrame, fl, id, <<FieldTok>>) : fl \in {{}, {eosBit}}, id \in StreamIDs }
    \cup { Request(fl, id) : fl \in {{}, {eosBit}}, id \in StreamIDs }
    \cup { Frame(headersFrame, {eohBit, eosBit}, MaxStreamID, p) :
             p \in {<<BadTok>>, <<MalTok>>, <<>>} }
    \cup { Frame(rstStreamFrame, {}, id, <<protocolError>>) : id \in StreamIDs }
    \cup { Frame(windowUpdateFrame, {}, 1, <<5>>),
           Frame(settingsFrame, {}, 0, <<>>),
           Frame(settingsFrame, {}, 1, <<>>),
           Frame(pingFrame, {}, MaxStreamID, <<>>),
           Frame(pushPromiseFrame, {}, 1, <<>>),
           Frame(goAwayFrame, {}, 0, <<0, protocolError>>) }

FlowFrames ==
    { Request({eosBit}, id) : id \in {0, 1} }
    \cup { Frame(windowUpdateFrame, {}, id, <<5>>) : id \in {0, 1} }
    \cup { Frame(settingsFrame, {}, 0, p) :
             p \in {<<initialWindowSizeSetting, 5>>,
                    <<initialWindowSizeSetting, 10>>,
                    <<maxFrameSizeSetting, 4>>,
                    <<initialWindowSizeSetting, 5, maxFrameSizeSetting, 4>>} }

\* HeaderFrames exercises header blocks sent in fragments: HEADERS without
\* END_HEADERS, CONTINUATION with and without END_HEADERS on the same and on
\* another stream, and frames that may not interrupt a block.
HeaderFrames ==
    { Frame(headersFrame, fl, 1, <<PseudoTok>>) : fl \in {{}, {eosBit}} }
    \cup { Frame(continuationFrame, {}, 1, <<FieldTok>>) }
    \cup { Frame(continuationFrame, {eohBit}, id, <<PseudoTok, FieldTok>>) :
             id \in {1, MaxStreamID} }
    \cup { Frame(dataFrame, {}, 1, <<FieldTok>>),
           Frame(continuationFrame + 1, {}, 1, <<>>),
           Frame(pingFrame, {}, 0, <<>>),
           Frame(windowUpdateFrame, {}, 0, <<5>>),
           Frame(settingsFrame, {}, 0, <<>>) }

\* readFrame: a frame of the alphabet F, an I/O error or a FRAME_SIZE_ERROR
ReadResults(F) ==
    {[err |-> "none", f |-> f] : f \in F}
    \cup {[err |-> "io", f |-> NoFrame], [err |-> "size", f |-> NoFrame]}

\* what a handler may have written when it returns
BodyLens == {-1, 0, 10}

\* transport writes that succeed in one Writer step before the transport fails
Quotas == {-1, 0, 1}

\* ------------------------------------------------------------------ state
VARIABLES
    rdPc,        \* Reader: "preface", "read", "toMux", "toWriter", "done"
    rdOut,       \* the frame the Reader is sending
    rdRet,       \* the Reader returns once rdOut is sent
    headerBuf,   \* the Reader's fragment buffer
    nRead,       \* frames read so far
    rdF,         \* f, the frame of the current pass of the Reader's loop
    mpIn,        \* multiplexer.in: "open" or "closed"
    mpPc,        \* Multiplexer: "select", "write", "drain", "done"
    mpOut,       \* what the current handler has still to hand to the Writer
    mpBack,      \* where the Multiplexer goes after the writes
    mpPanic,     \* run is unwinding a panic through its deferred function
    streams,     \* multiplexer.streams
    runningHandlers,
    tasks,       \* handler tasks alive, per stream id
    win,         \* writer.in, the buffered frames
    winClosed,   \* writer.in is closed
    wrPc,        \* Writer: "start", "loop", "done"
    w,           \* the Writer's fields
    wire,        \* frames written to the transport
    panicked,    \* "none", or the panic that ended the process
    overWindow,  \* a DATA frame was written above a window
    incrSum,     \* per stream id, the increments the Writer has applied
    maxInit,     \* the largest initWindow so far
    resetTasks,  \* per stream id, the handler tasks alive that the client reset
    fwdReset,    \* the response of a reset handler task was forwarded
    sf,          \* splitFrame alone: the frame f, the size m, the frames out
    hp,          \* hpack alone: the index table t, the block and what is
                 \* left of it, the header list, whether DecodeHeaderBlock is
                 \* running, the kind of the last result, the calls so far
    rt,          \* encodeInt and decodeInt alone: the value v, the prefix,
                 \* the bytes that follow (tail), the bytes encodeInt made,
                 \* what decodeInt returned (out)
    dr           \* flushPendingData alone: the Writer w it is called on,
                 \* the Writer it leaves (out), the frames it wrote (wire)

vars == <<rdPc, rdOut, rdRet, headerBuf, nRead, rdF, mpIn, mpPc, mpOut, mpBack,
          mpPanic, streams, runningHandlers, tasks, win, winClosed, wrPc, w,
          wire, panicked, overWindow, incrSum, maxInit, resetTasks, fwdReset,
          sf, hp, rt, dr>>

readerVars == <<rdPc, rdOut, rdRet, headerBuf, nRead, rdF, mpIn>>
muxVars == <<mpPc, mpOut, mpBack, mpPanic, streams, runningHandlers, tasks,
             resetTasks, fwdReset>>
writerVars == <<wrPc, w, wire, overWindow, incrSum, maxInit>>
\* what the functions checked on their own work on
labVars == <<sf, hp, rt, dr>>
connVars == <<readerVars, muxVars, writerVars, win, winClosed, panicked>>

InitConn ==
    /\ rdPc = "preface" /\ rdOut = NoFrame /\ rdRet = FALSE
    /\ headerBuf = <<>> /\ nRead = 0 /\ rdF = NoFrame /\ mpIn = "open"
    /\ mpPc = "select" /\ mpOut = <<>> /\ mpBack = "select" /\ mpPanic = FALSE
    /\ streams = [entries |-> <<>>, maxID |-> 0]
    /\ runningHandlers = 0
    /\ tasks = [id \in StreamIDs |-> 0]
    /\ win = <<>> /\ winClosed = FALSE
    /\ wrPc = "start" /\ w = NewWriter
    /\ wire = <<>> /\ panicked = "none"
    /\ overWindow = FALSE
    /\ incrSum = [id \in StreamIDs |-> 0]
    /\ maxInit = InitWindow
    /\ resetTasks = [id \in StreamIDs |-> 0]
    /\ fwdReset = FALSE

\* a frame of the program and a size for splitFrame, not yet split
SplitInput(f, m) == [f |-> f, m |-> m, out |-> <<>>]

\* newMultiplexer: the index table of a connection, nothing decoded yet
InitHpack ==
    hp = [t |-> NewIndexTable(InitTableSize), block |-> <<>>, rest |-> <<>>,
          list |-> <<>>, pc |-> "idle", kind |-> "ok", n |-> 0]

\* a value, a prefix and the bytes behind the integer, nothing encoded yet
IntInput(v, prefix, tail) ==
    [v |-> v, prefix |-> prefix, tail |-> tail, bytes |-> <<>>,
     out |-> IntResult("ok", U64(0), <<>>), pc |-> "input"]

InitInt == rt = IntInput(U64(0), 8, <<>>)

\* flushPendingData is called on the Writer x.
DrainInput(x) == [w |-> x, out |-> x, wire |-> <<>>, pc |-> "queued"]

InitDrain == dr = DrainInput(NewWriter)

InitLab ==
    sf = SplitInput(NoFrame, InitMaxFrameSize) /\ InitHpack /\ InitInt /\ InitDrain

Init == InitConn /\ InitLab

Alive == panicked = "none"

\* ---------------------------------------------------------- Reader steps
\* runReader: io.ReadFull of the preface; a bad preface returns before the
\* deferred multiplexer.shutdown is set up.
ReaderPreface(ok) ==
    /\ Alive /\ rdPc = "preface"
    /\ rdPc' = IF ok THEN "read" ELSE "done"
    /\ UNCHANGED <<rdOut, rdRet, headerBuf, nRead, rdF, mpIn>>
    /\ UNCHANGED <<muxVars, writerVars, win, winClosed, panicked>>
    /\ UNCHANGED labVars

\* runReader: readFrame and the handling of its result up to the send
ReaderRead(r, max) ==
    /\ Alive /\ rdPc = "read"
    /\ r.err = "none" => nRead < max
    /\ LET res == IF r.err = "io" THEN ReadResult(headerBuf, "done", NoFrame, TRUE)
                  ELSE IF r.err = "size"
                  THEN ReadResult(headerBuf, "toWriter",
                                  buildGoAwayFrame(frameSizeError), TRUE)
                  ELSE readerStep(headerBuf, r.f)
       IN  /\ headerBuf' = res.buf
           /\ rdOut' = res.out
           /\ rdRet' = res.ret
           /\ rdPc' = IF res.pc = "panic" THEN "done" ELSE res.pc
           /\ mpIn' = IF res.pc \in {"done", "panic"} THEN "closed" ELSE mpIn
           /\ panicked' = IF res.pc = "panic" THEN "reader: short GOAWAY payload"
                          ELSE panicked
    /\ nRead' = IF r.err = "none" THEN nRead + 1 ELSE nRead
    /\ rdF' = r.f
    /\ UNCHANGED <<muxVars, writerVars, win, winClosed>>
    /\ UNCHANGED labVars

\* writer.write called by the Reader: w.in <- f
ReaderWrite ==
    /\ Alive /\ rdPc = "toWriter"
    /\ winClosed \/ Len(win) < WriterInCap
    /\ IF winClosed
       THEN /\ panicked' = "reader: send on closed writer.in"
            /\ rdPc' = "done" /\ mpIn' = "closed"
            /\ UNCHANGED win
       ELSE /\ win' = Append(win, rdOut)
            /\ rdPc' = IF rdRet THEN "done" ELSE "read"
            /\ mpIn' = IF rdRet THEN "closed" ELSE mpIn
            /\ UNCHANGED panicked
    /\ rdOut' = NoFrame /\ rdF' = NoFrame
    /\ UNCHANGED <<rdRet, headerBuf, nRead>>
    /\ UNCHANGED <<muxVars, writerVars, winClosed>>
    /\ UNCHANGED labVars

\* ------------------------------------------------------ Multiplexer steps
\* The Multiplexer takes up the result R of a handler; a handler that wrote
\* nothing goes straight on.
MuxTakes(R, back) ==
    /\ streams' = R.c
    /\ runningHandlers' = R.n
    /\ mpOut' = R.out
    /\ mpBack' = back
    /\ mpPc' = IF R.out # <<>> THEN "write" ELSE back

\* multiplexer.run: case f, ok := <-mp.in, a frame from the Reader
MuxRecvFrame ==
    /\ Alive /\ mpPc = "select" /\ rdPc = "toMux"
    /\ LET R == multiplexFrame(streams, runningHandlers, rdOut) IN
       /\ MuxTakes(R, IF R.exit THEN "drain" ELSE "select")
       /\ tasks' = IF R.spawn >= 0 THEN [tasks EXCEPT ![R.spawn] = @ + 1] ELSE tasks
       /\ mpPanic' = R.panic
       /\ resetTasks' = IF rdOut.typ = rstStreamFrame /\ R.out = <<>> /\ ~R.panic
                        THEN [resetTasks EXCEPT ![rdOut.sid] = tasks[rdOut.sid]]
                        ELSE resetTasks
    /\ UNCHANGED fwdReset
    /\ rdPc' = "read" /\ rdOut' = NoFrame /\ rdF' = NoFrame
    /\ UNCHANGED <<rdRet, headerBuf, nRead, mpIn>>
    /\ UNCHANGED <<writerVars, win, winClosed, panicked>>
    /\ UNCHANGED labVars

\* multiplexer.run: case f, ok := <-mp.in with the channel closed
MuxRecvClosed ==
    /\ Alive /\ mpPc = "select" /\ mpIn = "closed"
    /\ mpPc' = "drain"
    /\ UNCHANGED <<mpOut, mpBack, mpPanic, streams, runningHandlers, tasks,
                   resetTasks, fwdReset>>
    /\ UNCHANGED <<readerVars, writerVars, win, winClosed, panicked>>
    /\ UNCHANGED labVars

\* A handler task returns and publishes its response (mp.response <- res);
\* the Multiplexer receives it in its loop or in its deferred drain.  The
\* task is one the client has reset (wasReset) or one it has not.
MuxRecvResponse(id, body, wasReset) ==
    /\ Alive /\ mpPc \in {"select", "drain"} /\ tasks[id] > 0
    /\ IF wasReset THEN resetTasks[id] > 0 ELSE tasks[id] > resetTasks[id]
    /\ LET R == writeResponse(streams, runningHandlers, id, body) IN
       /\ MuxTakes(R,
                   IF mpPc = "select" /\ ~R.exit THEN "select" ELSE "drain")
       /\ tasks' = [tasks EXCEPT ![id] = @ - 1]
       /\ resetTasks' = IF wasReset THEN [resetTasks EXCEPT ![id] = @ - 1]
                        ELSE resetTasks
       /\ fwdReset' = (fwdReset \/ (wasReset /\ R.out # <<>>))
       /\ mpPanic' = (mpPanic \/ R.panic)
       /\ panicked' = IF mpPc = "drain" /\ R.panic
                      THEN "multiplexer: nil response body" ELSE panicked
    /\ UNCHANGED <<readerVars, writerVars, win, winClosed>>
    /\ UNCHANGED labVars

\* writer.write called by the Multiplexer: w.in <- f
MuxWrite ==
    /\ Alive /\ mpPc = "write" /\ Head(mpOut).kind = "frame"
    /\ winClosed \/ Len(win) < WriterInCap
    /\ IF winClosed
       THEN /\ panicked' = "multiplexer: send on closed writer.in"
            /\ UNCHANGED <<win, mpOut, mpPc>>
       ELSE /\ win' = Append(win, Head(mpOut).frame)
            /\ mpOut' = Tail(mpOut)
            /\ mpPc' = IF Tail(mpOut) = <<>> THEN mpBack ELSE "write"
            /\ UNCHANGED panicked
    /\ UNCHANGED <<mpBack, mpPanic, streams, runningHandlers, tasks,
                   resetTasks, fwdReset>>
    /\ UNCHANGED <<readerVars, writerVars, winClosed>>
    /\ UNCHANGED labVars

\* MuxShutdown without the wait for the running handlers
MuxShutdownEarly ==
    /\ Alive /\ mpPc = "drain"
    /\ winClosed' = TRUE
    /\ mpPc' = "done"
    /\ panicked' = IF mpPanic THEN "multiplexer" ELSE panicked
    /\ UNCHANGED <<mpOut, mpBack, mpPanic, streams, runningHandlers, tasks,
                   resetTasks, fwdReset>>
    /\ UNCHANGED <<readerVars, writerVars, win>>
    /\ UNCHANGED labVars

\* multiplexer.run's deferred function once no handler is running:
\* writer.shutdown(); a panic that was unwinding then ends the process.
MuxShutdown ==
    /\ Alive /\ mpPc = "drain" /\ runningHandlers = 0
    /\ winClosed' = TRUE
    /\ mpPc' = "done"
    /\ panicked' = IF mpPanic THEN "multiplexer" ELSE panicked
    /\ UNCHANGED <<mpOut, mpBack, mpPanic, streams, runningHandlers, tasks,
                   resetTasks, fwdReset>>
    /\ UNCHANGED <<readerVars, writerVars, win>>
    /\ UNCHANGED labVars

\* ----------------------------------------------------------- Writer steps
WriterTakes(T) ==
    /\ w' = T.w
    /\ wire' = T.wire
    /\ overWindow' = (overWindow \/ T.over)
    /\ maxInit' = IF T.w.initWindow > maxInit THEN T.w.initWindow ELSE maxInit
    /\ panicked' = IF T.panic THEN "writer: divide by zero" ELSE panicked

\* the SETTINGS frame writer.run sends when it starts
InitialSettings ==
    Frame(settingsFrame, {}, 0, <<initialWindowSizeSetting, AdvertisedWindow>>)

\* writer.run up to its loop: its own first SETTINGS frame through w.in,
\* then the connection-level window
WriterStart ==
    /\ Alive /\ wrPc = "start"
    /\ winClosed \/ Len(win) < WriterInCap
    /\ IF winClosed
       THEN /\ panicked' = "writer: send on closed writer.in"
            /\ UNCHANGED <<win, w, wrPc>>
       ELSE /\ win' = Append(win, InitialSettings)
            /\ w' = [w EXCEPT !.streamsWindow = SetWindow(@, 0, w.initWindow)]
            /\ wrPc' = "loop"
            /\ UNCHANGED panicked
    /\ UNCHANGED <<wire, overWindow, incrSum, maxInit, winClosed>>
    /\ UNCHANGED <<readerVars, muxVars>>
    /\ UNCHANGED labVars

\* writer.run: case f, ok := <-w.in with a frame
WriterRecvFrame(q) ==
    /\ Alive /\ wrPc = "loop" /\ win # <<>>
    /\ WriterTakes(handleFrame(Step(w, wire, q), Head(win)))
    /\ win' = Tail(win)
    /\ UNCHANGED <<wrPc, incrSum, winClosed>>
    /\ UNCHANGED <<readerVars, muxVars>>
    /\ UNCHANGED labVars

\* writer.run: case f, ok := <-w.in with the channel closed and drained
WriterRecvClosed ==
    /\ Alive /\ wrPc = "loop" /\ win = <<>> /\ winClosed
    /\ w' = [w EXCEPT !.peer = FALSE]
    /\ wrPc' = "done"
    /\ UNCHANGED <<wire, overWindow, incrSum, maxInit, win, winClosed, panicked>>
    /\ UNCHANGED <<readerVars, muxVars>>
    /\ UNCHANGED labVars

\* The Multiplexer's message on an unbuffered channel is taken.
MuxHandsOver ==
    /\ mpOut' = Tail(mpOut)
    /\ mpPc' = IF Tail(mpOut) = <<>> THEN mpBack ELSE "write"
    /\ UNCHANGED <<mpBack, mpPanic, streams, runningHandlers, tasks,
                   resetTasks, fwdReset>>

\* writer.run: case incr := <-w.window, sent by writer.incrWindow
WriterRecvIncr(q) ==
    /\ Alive /\ wrPc = "loop" /\ mpPc = "write" /\ Head(mpOut).kind = "incr"
    /\ LET m == Head(mpOut) IN
       /\ WriterTakes(handleIncr(Step(w, wire, q), m.id, m.value))
       /\ incrSum' = [incrSum EXCEPT ![m.id] = @ + m.value]
    /\ MuxHandsOver
    /\ UNCHANGED <<wrPc, win, winClosed>>
    /\ UNCHANGED readerVars
    /\ UNCHANGED labVars

\* writer.run: case params := <-w.settings, sent by writer.changeSettings
WriterRecvSettings(q) ==
    /\ Alive /\ wrPc = "loop" /\ mpPc = "write" /\ Head(mpOut).kind = "settings"
    /\ WriterTakes(handleSettings(Step(w, wire, q), Head(mpOut).params))
    /\ MuxHandsOver
    /\ UNCHANGED <<wrPc, incrSum, win, winClosed>>
    /\ UNCHANGED readerVars
    /\ UNCHANGED labVars

\* The connection with a client that sends at most max frames of F.
NextOver(F, max) ==
    \/ \E ok \in BOOLEAN : ReaderPreface(ok)
    \/ \E r \in ReadResults(F) : ReaderRead(r, max)
    \/ ReaderWrite
    \/ MuxRecvFrame
    \/ MuxRecvClosed
    \/ \E id \in StreamIDs, body \in BodyLens, wasReset \in BOOLEAN :
          MuxRecvResponse(id, body, wasReset)
    \/ MuxWrite
    \/ MuxShutdown
    \/ WriterStart
    \/ \E q \in Quotas : WriterRecvFrame(q)
    \/ WriterRecvClosed
    \/ \E q \in Quotas : WriterRecvIncr(q)
    \/ \E q \in Quotas : WriterRecvSettings(q)

Next == NextOver(StreamFrames, MaxFrames)

Spec == Init /\ [][Next]_vars

NextFlow == NextOver(FlowFrames, MaxFlowFrames)

SpecFlow == Init /\ [][NextFlow]_vars

\* ------------------------------------------------------ splitFrame alone
Payload(n) == [i \in 1..n |-> i]

SplitFrames ==
    { Frame(t, fl, 1, Payload(n)) :
        t \in {dataFrame, headersFrame},
        fl \in SUBSET {eosBit, eohBit, paddedBit},
        n \in 0..MaxSplitLen }

InitSplit ==
    /\ InitConn /\ InitHpack /\ InitInt /\ InitDrain
    /\ \E f \in SplitFrames, m \in 1..MaxSplitSize : sf = SplitInput(f, m)

\* sendToPeer: w.splitFrame(f) with w.maxFrameSize = m
Split ==
    /\ sf.out = <<>>
    /\ sf' = [sf EXCEPT !.out = splitFrame(sf.f, sf.m)]
    /\ UNCHANGED <<connVars, hp, rt, dr>>

SpecSplit == InitSplit /\ [][Split]_vars

\* ----------------------------------------------------------- hpack alone
\* The bytes of an integer i with an N-bit prefix under the pattern bits of
\* its instruction, for i below 2^N + 127.
IntBytes(pattern, prefix, i) ==
    IF i < 2^prefix - 1 THEN <<pattern + i>>
    ELSE <<pattern + 2^prefix - 1, i - (2^prefix - 1)>>

\* A string literal without Huffman coding.
StrBytes(str) == <<Len(str)>> \o str

\* indexed header field
Indexed(i) == IntBytes(128, 7, i)
\* literal header field, with incremental indexing (64) or without (0)
Literal(pattern, name, value) == <<pattern>> \o StrBytes(name) \o StrBytes(value)
LiteralNamed(pattern, prefix, i, value) == IntBytes(pattern, prefix, i) \o StrBytes(value)
\* dynamic table size update
SizeUpdate(size) == IntBytes(32, 5, size)

\* EncodeHeaderList: every field as a literal field that is not indexed
RECURSIVE EncodeHeaderList(_)
EncodeHeaderList(list) ==
    IF list = <<>> THEN <<>>
    ELSE encodeStr(encodeStr(<<16>>, Head(list).name), Head(list).value)
         \o EncodeHeaderList(Tail(list))

\* Header lists a response is made of: none, fields n: a and x: (empty), a
\* field the static table holds, and a value of LongLen bytes, whose length
\* takes more than the prefix.
LongValue == [i \in 1..LongLen |-> 97]

HeaderLists ==
    { <<>>,
      <<NewHeaderField(<<110>>, <<97>>)>>,
      <<NewHeaderField(<<110>>, <<97>>), NewHeaderField(<<120>>, <<>>)>>,
      <<staticTable[2], NewHeaderField(<<110>>, <<97>>)>>,
      <<NewHeaderField(<<120>>, LongValue), NewHeaderField(<<110>>, <<98>>)>> }

EncodedBlocks == { EncodeHeaderList(l) : l \in HeaderLists }

\* The instructions a client sends: references to the static table (2), to
\* the dynamic table (62..) and outside both (0, 64, 200), fields a, b, c of
\* size 34 that enter the dynamic table, and size updates that leave room
\* for no entry, for one and for two.
Instructions ==
    { Indexed(i) : i \in {0, 2, 62, 63, 64, 200} }
    \cup { Literal(64, <<110>>, <<v>>) : v \in {97, 98, 99} }
    \cup { LiteralNamed(64, 6, i, <<120>>) : i \in {2, 62, 63} }
    \cup { Literal(0, <<110>>, <<97>>), LiteralNamed(0, 4, 62, <<120>>) }
    \cup { SizeUpdate(size) : size \in {0, 34, 68} }

\* An instruction cut short: its integer, its string or its second string
\* is not all there.
TruncatedBlocks ==
    UNION { { SubSeq(b, 1, k) : k \in 1..(Len(b) - 1) } : b \in Instructions }
        \ Instructions

HeaderBlocks ==
    Instructions \cup TruncatedBlocks
    \cup { Literal(64, <<110>>, <<97>>) \o Indexed(62) }
    \cup EncodedBlocks

\* SETTINGS_HEADER_TABLE_SIZE values a client sends
AllowedSizes == {0, 34, 68, InitTableSize}

\* multiplexer.run, headersFrame: hpack.DecodeHeaderBlock(mp.indexTable,
\* f.payload) is called.  After an error the Multiplexer leaves its loop and
\* the table is not used again; a panic ends the process.
MuxDecodes(block) ==
    /\ hp.pc = "idle" /\ hp.kind = "ok" /\ hp.n < MaxHpackOps
    /\ hp' = [hp EXCEPT !.block = block, !.rest = block, !.list = <<>>,
                        !.pc = "decoding", !.n = @ + 1]
    /\ UNCHANGED <<connVars, sf, rt, dr>>

\* DecodeHeaderBlock, what a pass of its loop makes of the instruction S: on
\* with the rest of the block, or return nil and the error
afterInstruction(h, S) ==
    IF S.kind = "ok"
    THEN [h EXCEPT !.t = S.t, !.rest = S.rest, !.list = @ \o S.fields]
    ELSE [h EXCEPT !.t = S.t, !.rest = <<>>, !.list = <<>>,
                   !.pc = "idle", !.kind = S.kind]

\* DecodeHeaderBlock, a pass of its loop: return the list when nothing is
\* left, else decode the instruction at the head of what is left
DecodeHeaderBlock ==
    /\ hp.pc = "decoding"
    /\ IF hp.rest = <<>>
       THEN hp' = [hp EXCEPT !.pc = "idle", !.kind = "ok"]
       ELSE hp' = afterInstruction(hp, decodeInstruction(hp.t, hp.rest))
    /\ UNCHANGED <<connVars, sf, rt, dr>>

\* the table after UpdateAllowedTableSize returned R
afterUpdate(h, R) ==
    [h EXCEPT !.t = R.t, !.block = <<>>, !.list = <<>>, !.kind = R.kind,
              !.n = @ + 1]

\* multiplexer.run, settingsFrame: mp.indexTable.UpdateAllowedTableSize
MuxUpdatesTable(size) ==
    /\ hp.pc = "idle" /\ hp.kind = "ok" /\ hp.n < MaxHpackOps
    /\ hp' = afterUpdate(hp, UpdateAllowedTableSize(hp.t, size))
    /\ UNCHANGED <<connVars, sf, rt, dr>>

NextHpack ==
    \/ \E block \in HeaderBlocks : MuxDecodes(block)
    \/ DecodeHeaderBlock
    \/ \E size \in AllowedSizes : MuxUpdatesTable(size)

SpecHpack == Init /\ [][NextHpack]_vars

\* ------------------------------------------- encodeInt and decodeInt alone
MaxU64 == Digits([i \in 1..U64Digits |-> IF i = U64Digits THEN 1 ELSE 127])

\* The values encoded: around the largest value of every prefix (2^N - 1),
\* around the ends of one, two and more continuation bytes, and around 2^32,
\* 2^63 and 2^64.
RoundTripValues ==
    { U64(n) : n \in {0, 1, 2, 3, 6, 7, 8, 14, 15, 16, 30, 31, 32, 62, 63, 64,
                      126, 127, 128, 129, 142, 143, 254, 255, 256, 382, 383,
                      16383, 16384, 16638, 16639, 2^28 - 1, 2^28, 2^30} }
    \cup { Shl64(16, 28), Add64(Shl64(16, 28), U64(255)),
           Sub64(Shl64(1, 63), U64(1)), Shl64(1, 63),
           Add64(Shl64(1, 63), U64(255)),
           Sub64(MaxU64, U64(255)), Sub64(MaxU64, U64(1)), MaxU64 }

Prefixes == 1..8

\* the bytes behind the integer: none, or bytes that look like more of it
Tails == {<<>>, <<200, 1>>}

InitRoundTrip ==
    /\ InitConn /\ sf = SplitInput(NoFrame, InitMaxFrameSize) /\ InitHpack /\ InitDrain
    /\ \E v \in RoundTripValues, prefix \in Prefixes, tail \in Tails :
          rt = IntInput(v, prefix, tail)

\* encodeInt(dst, v, prefix) on an empty dst
EncodeInt ==
    /\ rt.pc = "input"
    /\ rt' = [rt EXCEPT !.bytes = encodeInt(<<>>, rt.v, rt.prefix),
                        !.pc = "encoded"]
    /\ UNCHANGED <<connVars, sf, hp, dr>>

\* decodeInt(block, prefix) on the bytes of encodeInt and what follows them
DecodeInt ==
    /\ rt.pc = "encoded"
    /\ rt' = [rt EXCEPT !.out = decodeInt(rt.bytes \o rt.tail, rt.prefix),
                        !.pc = "decoded"]
    /\ UNCHANGED <<connVars, sf, hp, dr>>

SpecRoundTrip == InitRoundTrip /\ [][EncodeInt \/ DecodeInt]_vars

\* ---------------------------------------------- flushPendingData alone
\* The queue holds the DATA frames of up to MaxPending responses, one per
\* stream (buildFrames makes one DATA frame), of 5 or 10 bytes; the windows
\* are around those sizes, the frame size is the initial one or 4, and the
\* transport is open or already closed.
DrainStreams == 1..MaxPending
DataLens == {5, 10}
ConnWindows == {0, 5, 10, 15, 25}
StreamWindows == {0, 5, 10}

DrainQueues ==
    UNION { { [i \in 1..n |-> Frame(dataFrame, {eosBit}, ids[i], Words(lens[i]))] :
                ids \in {f \in [1..n -> DrainStreams] :
                            \A i, j \in 1..n : i # j => f[i] # f[j]},
                lens \in [1..n -> DataLens] } :
            n \in 0..MaxPending }

InitFlush ==
    /\ InitConn /\ sf = SplitInput(NoFrame, InitMaxFrameSize) /\ InitHpack /\ InitInt
    /\ \E q \in DrainQueues, c \in ConnWindows, sw \in [DrainStreams -> StreamWindows],
          m \in {4, InitMaxFrameSize}, open \in BOOLEAN :
          dr = DrainInput([NewWriter EXCEPT
                             !.peer = open,
                             !.maxFrameSize = m,
                             !.streamsWindow = [k \in {0} \cup DrainStreams |->
                                                   IF k = 0 THEN c ELSE sw[k]],
                             !.pendingData = q])

\* one call of w.flushPendingData(), the transport taking q more writes
FlushPendingData(q) ==
    /\ dr.pc = "queued"
    /\ LET T == flushPendingData(Step(dr.w, <<>>, q)) IN
       dr' = [dr EXCEPT !.out = T.w, !.wire = T.wire, !.pc = "drained"]
    /\ UNCHANGED <<connVars, sf, hp, rt>>

SpecFlush == InitFlush /\ [][\E q \in Quotas : FlushPendingData(q)]_vars

NextHeaders == NextOver(HeaderFrames, MaxHeaderFrames)
SpecHeaders == Init /\ [][NextHeaders]_vars

\* ZeroFrames exercises a client that sets MAX_FRAME_SIZE to 0 before or
\* after its request.
ZeroFrames ==
    { Request({eosBit}, 1),
      Frame(windowUpdateFrame, {}, 0, <<5>>),
      Frame(settingsFrame, {}, 0, <<maxFrameSizeSetting, 0>>) }

NextZero == NextOver(ZeroFrames, MaxFrames)
SpecZero == Init /\ [][NextZero]_vars

\* The tasks of the connection: the Reader, the Multiplexer with its handler
\* tasks, and the Writer.
ReaderSteps ==
    \/ \E ok \in BOOLEAN : ReaderPreface(ok)
    \/ \E r \in ReadResults(StreamFrames) : ReaderRead(r, MaxFrames)
    \/ ReaderWrite

MuxSteps ==
    \/ MuxRecvFrame
    \/ MuxRecvClosed
    \/ \E id \in StreamIDs, body \in BodyLens, wasReset \in BOOLEAN :
          MuxRecvResponse(id, body, wasReset)
    \/ MuxWrite
    \/ MuxShutdown

WriterSteps ==
    \/ WriterStart
    \/ \E q \in Quotas : WriterRecvFrame(q)
    \/ WriterRecvClosed
    \/ \E q \in Quotas : WriterRecvIncr(q)
    \/ \E q \in Quotas : WriterRecvSettings(q)

\* The scheduler runs every task that can take a step, and every handler
\* returns.
SpecLive ==
    /\ Init /\ [][Next]_vars
    /\ WF_vars(ReaderSteps) /\ WF_vars(MuxSteps) /\ WF_vars(WriterSteps)

\* ------------------------------------------------------------ what is seen
Min(a, b) == IF a < b THEN a ELSE b
Max(a, b) == IF a > b THEN a ELSE b

\* the payload bytes of the DATA frames of fs on the streams ids
RECURSIVE DataBytes(_, _)
DataBytes(fs, ids) ==
    IF fs = <<>> THEN 0
    ELSE (IF Head(fs).typ = dataFrame /\ Head(fs).sid \in ids
          THEN Len(Head(fs).payload) ELSE 0) + DataBytes(Tail(fs), ids)

DataOn(fs, id) == DataBytes(fs, {id})
DataAll(fs) == DataBytes(fs, StreamIDs)

SendOnClosed ==
    panicked \in {"reader: send on closed writer.in",
                  "multiplexer: send on closed writer.in",
                  "writer: send on closed writer.in"}

\* the window the Writer tracks for s, or would create for it
TrackedWindow(s) ==
    IF s \in DOMAIN w.streamsWindow THEN w.streamsWindow[s] ELSE w.initWindow

\* the Multiplexer is taking the frame rdOut from the Reader in this step
MuxReceives == mpPc = "select" /\ rdPc = "toMux" /\ rdPc' = "read"

\* the Multiplexer's loop has returned
MuxExiting == mpPc \in {"drain", "done"} \/ (mpPc = "write" /\ mpBack = "drain")

\* ------------------------------------------------------------------ claims
\* C1: no task ever sends on writer.in (or multiplexer.in) after shutdown()
\* has closed it.
C1_NoSendOnClosed == ~SendOnClosed

\* C2: every DATA frame written to the transport is no longer than its
\* stream's window and the connection window as they stand before the write.
C2_DataWithinWindows == ~overWindow

\* C3 as stated: every tracked send window is >= 0.
C3_WindowsNonNegative ==
    \A s \in DOMAIN w.streamsWindow : w.streamsWindow[s] >= 0

\* C3 amended: a step takes a tracked window below zero, or further below,
\* only by as much as a SETTINGS lowers INITIAL_WINDOW_SIZE in that step; the
\* connection window (id 0) also by the DATA written on stream id 0.
C3_NegativeOnlyBySettings ==
    [][\A s \in DOMAIN w'.streamsWindow :
          w'.streamsWindow[s] >=
              Min(TrackedWindow(s), 0)
              - Max(0, w.initWindow - w'.initWindow)
              - (IF s = 0 THEN DataOn(wire', 0) - DataOn(wire, 0) ELSE 0)]_vars

\* C3 witness: a SETTINGS that lowered INITIAL_WINDOW_SIZE after DATA was
\* written left a stream's window negative.
C3_Witness ==
    \E s \in DOMAIN w.streamsWindow :
        s # 0 /\ w.streamsWindow[s] < 0 /\ DataOn(wire, s) > 0 /\ w.initWindow < maxInit

\* C4: window(s) = initWindow + increments(s) - DATA bytes written on s, and
\* for the connection (s = 0) - all DATA bytes written.
C4_WindowAccounting ==
    \A s \in DOMAIN w.streamsWindow :
        w.streamsWindow[s] =
            w.initWindow + incrSum[s] - (IF s = 0 THEN DataAll(wire) ELSE DataOn(wire, s))

\* C5 as stated: the Writer sends the part of a DATA payload that fits the
\* windows and defers only the rest, so while the transport is open nothing
\* of a deferred frame fits.
C5_StallSendsWhatFits ==
    \A i \in DOMAIN w.pendingData :
        LET f == w.pendingData[i] IN
        w.peer /\ f.sid # 0 =>
            Min(WindowOf(w.streamsWindow, 0), WindowOf(w.streamsWindow, f.sid)) <= 0

\* C5 amended: a DATA frame is deferred whole while one of its two windows
\* is smaller than its payload and is written whole once both cover it: a
\* deferred frame does not fit, and a DATA frame without END_STREAM on the
\* transport is followed by the next DATA frame of its stream unless the
\* transport failed there.
C5_WholeFrameDeferred ==
    /\ \A i \in DOMAIN w.pendingData :
          LET f == w.pendingData[i] IN
          \/ WindowOf(w.streamsWindow, 0) < Len(f.payload)
          \/ WindowOf(w.streamsWindow, f.sid) < Len(f.payload)
    /\ \A i \in DOMAIN wire :
          wire[i].typ = dataFrame /\ eosBit \notin wire[i].flags =>
              IF i < Len(wire)
              THEN wire[i + 1].typ = dataFrame /\ wire[i + 1].sid = wire[i].sid
              ELSE ~w.peer

\* C5 witness: the end of the stall scenario.  INITIAL_WINDOW_SIZE 5, a
\* 10-byte body on stream 1, then +5 on stream 1 and on the connection: the
\* body went out as one DATA frame with END_STREAM.
C5_Witness ==
    /\ w.initWindow = 5 /\ incrSum[0] = 5 /\ incrSum[1] = 5
    /\ wire = << Frame(settingsFrame, {}, 0, <<initialWindowSizeSetting, AdvertisedWindow>>),
                 Frame(settingsFrame, {ackBit}, 0, <<>>),
                 Frame(headersFrame, {eohBit}, 1, Words(HdrBlockLen)),
                 Frame(dataFrame, {eosBit}, 1, Words(10)) >>

\* C6: the last-stream-id of every GOAWAY on the transport is >= the stream
\* id of every frame with END_STREAM and every RST_STREAM written before it,
\* and last-processed-stream-id never decreases.
C6_GoAwayCoversClosedStreams ==
    [][/\ w'.lastProcessed >= w.lastProcessed
       /\ \A i \in DOMAIN wire' :
             wire'[i].typ = goAwayFrame =>
                 \A j \in 1..(i - 1) :
                     eosBit \in wire'[j].flags \/ wire'[j].typ = rstStreamFrame
                         => wire'[i].payload[1] >= wire'[j].sid]_vars

\* C6 witness: a GOAWAY written after a response ended a stream carries that
\* stream's id.
C6_Witness ==
    \E i \in DOMAIN wire, j \in DOMAIN wire :
        /\ j < i /\ wire[i].typ = goAwayFrame
        /\ wire[j].typ \in {headersFrame, dataFrame} /\ eosBit \in wire[j].flags
        /\ wire[j].sid >= 1 /\ wire[i].payload[1] = wire[j].sid

\* C7: a frame with stream id # 0 on a half-closed (remote) or closed stream
\* that is neither WINDOW_UPDATE nor RST_STREAM is answered by
\* RST_STREAM(STREAM_CLOSED); the stream is removed, the frame is not applied
\* and the Multiplexer goes on with its loop.
C7_ClosedStreamRefused ==
    [][MuxReceives /\ rdOut.sid # 0
         /\ get(streams, rdOut.sid).state \in {halfClosedRemoteStream, closedStream}
         /\ rdOut.typ \notin {windowUpdateFrame, rstStreamFrame}
       => /\ mpOut' = <<FrameMsg(Frame(rstStreamFrame, {}, rdOut.sid, <<streamClosedError>>))>>
          /\ mpPc' = "write" /\ mpBack' = "select" /\ ~winClosed'
          /\ rdOut.sid \notin DOMAIN streams'.entries
          /\ streams'.maxID = streams.maxID
          /\ \A k \in DOMAIN streams.entries \ {rdOut.sid} :
                k \in DOMAIN streams'.entries /\ streams'.entries[k] = streams.entries[k]
          /\ runningHandlers' = runningHandlers /\ tasks' = tasks]_vars

\* C7 witness: DATA arrived on a stream whose handler was running; the
\* RST_STREAM(STREAM_CLOSED) is on the transport and the Multiplexer is back
\* in its loop.
C7_Witness ==
    /\ mpPc = "select"
    /\ \E i \in DOMAIN wire, id \in 1..MaxStreamID :
          wire[i] = Frame(rstStreamFrame, {}, id, <<streamClosedError>>)

\* C8: a frame other than HEADERS as the first frame of an idle stream (id
\* above every opened id, id # 0) makes the Multiplexer send
\* GOAWAY(PROTOCOL_ERROR) and leave its loop for good; no stream is created
\* and no handler spawned.
C8_IdleStreamNeedsHeaders ==
    [][/\ MuxReceives /\ rdOut.sid # 0 /\ rdOut.sid > streams.maxID
          /\ rdOut.typ # headersFrame
          => /\ mpOut' = <<FrameMsg(Frame(goAwayFrame, {}, 0, <<0, protocolError>>))>>
             /\ mpPc' = "write" /\ mpBack' = "drain"
             /\ streams' = streams
             /\ runningHandlers' = runningHandlers /\ tasks' = tasks
       /\ MuxExiting => MuxExiting']_vars

\* C8 witness: the Multiplexer has left its loop with GOAWAY(PROTOCOL_ERROR)
\* to write and no stream opened.
C8_Witness ==
    /\ mpPc = "write" /\ mpBack = "drain"
    /\ mpOut = <<FrameMsg(Frame(goAwayFrame, {}, 0, <<0, protocolError>>))>>
    /\ streams.maxID = 0 /\ DOMAIN streams.entries = {}

\* C9: the response of a handler whose stream the client reset while it ran
\* is never forwarded to the Writer.
C9_ResetResponseDropped == ~fwdReset

\* C10: writer.shutdown() is called only when no handler task is left and
\* every response has been through writeResponse.
C10_ShutdownAfterDrain ==
    winClosed => runningHandlers = 0 /\ \A id \in StreamIDs : tasks[id] = 0

\* C10 witness: the Writer was shut down after a handler's response had been
\* written.
C10_Witness ==
    winClosed /\ \E i \in DOMAIN wire : wire[i].typ = headersFrame


\* C11: under fair scheduling, once the Reader's loop has exited (its
\* deferred multiplexer.shutdown() has closed multiplexer.in) the Multiplexer
\* shuts down, writer.in is closed and the Writer closes the transport and
\* terminates.
C11_ReaderExitShutsDown ==
    (mpIn = "closed") ~>
        (mpPc = "done" /\ winClosed /\ wrPc = "done" /\ ~w.peer)


\* A pass of the Reader's loop that read a frame.
ReaderReads == rdPc = "read" /\ nRead' = nRead + 1

\* C12: when a CONTINUATION with END_HEADERS completes the block that a
\* HEADERS frame without END_HEADERS began, the frame forwarded to the
\* Multiplexer is a HEADERS frame on that stream whose payload is the payloads
\* of the HEADERS frame and of every CONTINUATION in arrival order, with
\* END_HEADERS and the HEADERS frame's END_STREAM; no fragment is forwarded
\* before the block is complete.
C12_MergedHeaderBlock ==
    [][ReaderReads /\ Len(headerBuf) > 0 /\ rdF'.typ = continuationFrame
          /\ rdF'.sid = headerBuf[1].sid
        => IF eoh(rdF'.flags)
           THEN /\ rdPc' = "toMux"
                /\ rdOut' = Frame(headersFrame,
                                  (headerBuf[1].flags \cap {eosBit}) \cup {eohBit},
                                  headerBuf[1].sid,
                                  concatPayloads(Append(headerBuf, rdF')))
           ELSE rdPc' = "read"]_vars

\* The frame just read may not arrive now: the fragment buffer is not empty
\* and the frame is not a CONTINUATION on the buffered stream, or it is a
\* CONTINUATION and the buffer is empty.
BreaksHeaderBlock(buf, fr) ==
    IF Len(buf) > 0
    THEN ~(fr.typ = continuationFrame /\ fr.sid = buf[1].sid)
    ELSE fr.typ = continuationFrame

\* C13: a frame that breaks a header block makes the Reader send
\* GOAWAY(PROTOCOL_ERROR) to the Writer and terminate; neither that frame nor
\* a buffered fragment is forwarded to the Multiplexer.
C13_BrokenHeaderBlockGoAway ==
    [][/\ ReaderReads /\ BreaksHeaderBlock(headerBuf, rdF')
          => /\ rdPc' = "toWriter" /\ rdRet'
             /\ rdOut' = buildGoAwayFrame(protocolError)
       /\ ReaderReads /\ rdPc' = "toMux"
          => \A i \in DOMAIN headerBuf' : headerBuf'[i] # rdOut'
       /\ rdPc = "toWriter" /\ rdF # NoFrame /\ BreaksHeaderBlock(headerBuf, rdF)
          /\ rdPc' # rdPc
          => /\ rdPc' = "done" /\ panicked' = "none"
             /\ win' = Append(win, buildGoAwayFrame(protocolError))]_vars


\* C14: for a HEADERS or DATA frame f and a max frame size m >= 1, the frames
\* of splitFrame(f) are on f's stream, their payloads in order make up f's
\* payload and none is longer than m.  An unsplit frame is f itself.  Of a
\* split DATA frame every chunk is DATA and the last alone carries f's flags;
\* of a split HEADERS frame the first chunk is HEADERS with f's END_STREAM and
\* nothing else, the rest are CONTINUATION, the last carries f's END_HEADERS
\* and nothing else, and the chunks between carry no flags.
C14_SplitFrame ==
    sf.out # <<>> =>
      LET f == sf.f
          fs == sf.out
          n == Len(fs)
      IN  /\ \A i \in 1..n : fs[i].sid = f.sid /\ Len(fs[i].payload) <= sf.m
          /\ concatPayloads(fs) = f.payload
          /\ n = 1 => fs[1] = f
          /\ n > 1 /\ f.typ = dataFrame =>
                \A i \in 1..n :
                    /\ fs[i].typ = dataFrame
                    /\ fs[i].flags = IF i = n THEN f.flags ELSE {}
          /\ n > 1 /\ f.typ = headersFrame =>
                \A i \in 1..n :
                    /\ fs[i].typ = IF i = 1 THEN headersFrame ELSE continuationFrame
                    /\ fs[i].flags = IF i = 1 THEN f.flags \cap {eosBit}
                                     ELSE IF i = n THEN f.flags \cap {eohBit}
                                     ELSE {}

\* C14 witness: a HEADERS frame with END_STREAM and END_HEADERS was split into
\* three frames or more.
C14_Witness ==
    /\ Len(sf.out) >= 3
    /\ sf.f.typ = headersFrame /\ {eosBit, eohBit} \subseteq sf.f.flags


\* The header list has none of :method, :path and :authority.
LacksPseudoHeaders(headers) ==
    \A i \in DOMAIN headers : headers[i] \notin {PseudoTok, MalTok}

\* C19: when an accepted frame with END_STREAM completes a request whose
\* header list lacks the pseudo-headers, the Multiplexer sends
\* RST_STREAM(PROTOCOL_ERROR) on the stream, closes it, spawns no handler,
\* leaves the handler counter as it is and goes on with its loop.
C19_MissingPseudoHeadersReset ==
    [][/\ MuxReceives /\ rdOut.sid # 0 /\ eos(rdOut.flags)
       /\ canAccept(get(streams, rdOut.sid), rdOut) = 0
       /\ \/ rdOut.typ = dataFrame
             /\ LacksPseudoHeaders(get(streams, rdOut.sid).headers)
          \/ rdOut.typ = headersFrame /\ ~DecodeFails(rdOut.payload)
             /\ LacksPseudoHeaders(get(streams, rdOut.sid).headers \o rdOut.payload)
       => /\ mpOut' = <<FrameMsg(Frame(rstStreamFrame, {}, rdOut.sid, <<protocolError>>))>>
          /\ mpPc' = "write" /\ mpBack' = "select" /\ ~mpPanic'
          /\ rdOut.sid \notin DOMAIN streams'.entries
          /\ runningHandlers' = runningHandlers /\ tasks' = tasks]_vars

\* The Multiplexer receives the response of the handler of stream id.
ResponseOn(id) ==
    mpPc \in {"select", "drain"} /\ tasks[id] > 0 /\ tasks'[id] = tasks[id] - 1

\* C20: the response of a handler whose stream is half-closed (remote) is
\* handed to the Writer as a HEADERS frame with END_HEADERS on the stream,
\* followed by one DATA frame with END_STREAM and the body, or by nothing when
\* there is no body, END_STREAM then being on the HEADERS frame; this holds
\* of a handler that never wrote as well.
C20_ResponseFrames ==
    [][\A id \in StreamIDs \ {0} :
         ResponseOn(id) /\ get(streams, id).state = halfClosedRemoteStream
         => /\ ~mpPanic' /\ panicked' = "none"
            /\ Len(mpOut') \in {1, 2}
            /\ \A i \in DOMAIN mpOut' :
                  mpOut'[i].kind = "frame" /\ mpOut'[i].frame.sid = id
            /\ mpOut'[1].frame.typ = headersFrame
            /\ eoh(mpOut'[1].frame.flags)
            /\ eos(mpOut'[1].frame.flags) <=> Len(mpOut') = 1
            /\ Len(mpOut') = 2 =>
                  /\ mpOut'[2].frame.typ = dataFrame
                  /\ mpOut'[2].frame.flags = {eosBit}
                  /\ mpOut'[2].frame.payload # <<>>]_vars


\* The entries the dynamic table holds, oldest first.
Live(t) == SelectSeq(t.dynamicTable, LAMBDA hf : ~hf.nil)

RECURSIVE SumSize(_)
SumSize(entries) ==
    IF entries = <<>> THEN 0 ELSE Size(Head(entries)) + SumSize(Tail(entries))

\* C15: while the connection lives, after any sequence of additions, size
\* updates and UpdateAllowedTableSize calls the sizes of the entries held add
\* up to the recorded size, and size <= max size <= allowed size.
C15_TableSizeInvariant ==
    hp.kind # "panic" =>
        /\ SumSize(Live(hp.t)) = hp.t.tableSize
        /\ hp.t.tableSize <= hp.t.maxTableSize
        /\ hp.t.maxTableSize <= hp.t.allowedTableSize

\* C15 witness: the allowed size was lowered, the max size lowered below it,
\* and an addition evicted an entry and left another in the table.
C15_Witness ==
    /\ hp.kind = "ok" /\ hp.t.tableSize > 0
    /\ hp.t.maxTableSize < hp.t.allowedTableSize
    /\ hp.t.allowedTableSize < InitTableSize
    /\ \E i \in DOMAIN hp.t.dynamicTable : hp.t.dynamicTable[i].nil

\* C16: when a call on the table returns, get(61 + k), for k from 1 to the
\* number of live entries, is the k-th most recently inserted live entry;
\* the entries that survive a step are the most recent ones and the entries
\* it inserts follow them.
C16_DynamicIndexOrder ==
    [][/\ hp'.pc = "idle" /\ hp'.kind = "ok" =>
            \A k \in 1..Len(Live(hp'.t)) :
               /\ IndexTable_get(hp'.t, staticTableLen + k).kind = "ok"
               /\ IndexTable_get(hp'.t, staticTableLen + k).hf
                     = Live(hp'.t)[Len(Live(hp'.t)) - k + 1]
       /\ \E j \in 0..Len(Live(hp.t)) :
             LET kept == SubSeq(Live(hp.t), j + 1, Len(Live(hp.t))) IN
             /\ Len(kept) <= Len(Live(hp'.t))
             /\ SubSeq(Live(hp'.t), 1, Len(kept)) = kept]_vars

\* Index i is outside the table t: 0, or above the last live dynamic entry.
OutOfTable(t, i) == i = 0 \/ i > staticTableLen + Len(Live(t))

\* DecodeHeaderBlock decodes the first instruction of the block.
FirstPass == hp.pc = "decoding" /\ hp.rest = hp.block /\ hp.block # <<>>

\* C17: a block that is one instruction with an index outside the table - an
\* indexed field, or a literal field that names its name by an index above
\* the table - is decoded to an error: no field, no crash.
C17_BadIndexIsError ==
    [][\A i \in 0..255 :
         /\ FirstPass /\ OutOfTable(hp.t, i)
         /\ \/ hp.block = Indexed(i)
            \/ i > 0 /\ hp.block \in {LiteralNamed(64, 6, i, <<120>>),
                                     LiteralNamed(0, 4, i, <<120>>)}
         => hp'.pc = "idle" /\ hp'.kind = "err" /\ hp'.list = <<>>]_vars

\* C18: a truncated block is decoded to an error: no crash, no read past the
\* end of the block.
C18_TruncatedIsError ==
    [][hp.pc = "decoding" /\ hp.block \in TruncatedBlocks /\ hp'.pc = "idle"
       => hp'.kind = "err"]_vars

\* readFrame returned FRAME_SIZE_ERROR and the Reader is about to hand its
\* GOAWAY to the Writer.
FrameSizeErrorRead ==
    rdPc = "toWriter" /\ rdRet /\ rdOut = buildGoAwayFrame(frameSizeError)

\* C21: a frame whose length exceeds 16384 is answered: nothing goes to the
\* Multiplexer, and the Writer comes to close the connection, having written
\* the GOAWAY with FRAME_SIZE_ERROR when the transport still took it.
C21_FrameSizeErrorGoAway ==
    /\ [][rdPc = "read" /\ FrameSizeErrorRead' => rdF' = NoFrame]_vars
    /\ FrameSizeErrorRead ~> ~w.peer

\* the Writer can take the frame at the head of writer.in
WriterConsumes == ENABLED (\E q \in Quotas : WriterRecvFrame(q))

\* C22: a GOAWAY is the last frame on the transport and the transport is
\* closed behind it; once closed the transport stays closed and takes no
\* frame, while the Writer still takes what is in writer.in.
C22_NothingAfterClose ==
    /\ [](\A i \in DOMAIN wire :
            wire[i].typ = goAwayFrame => i = Len(wire) /\ ~w.peer)
    /\ [][~w.peer => wire' = wire /\ ~w'.peer]_vars
    /\ [](Alive /\ ~w.peer /\ wrPc = "loop" /\ win # <<>> => WriterConsumes)

\* C22 witness: the response HEADERS of stream 1 were written, then a GOAWAY,
\* and behind the closed transport the Writer has taken the DATA frame that
\* ends the stream (lastProcessed says so) without writing it.
C22_Witness ==
    /\ ~w.peer /\ wire # <<>> /\ wire[Len(wire)].typ = goAwayFrame
    /\ \E i \in DOMAIN wire :
          wire[i].typ = headersFrame /\ wire[i].sid = 1 /\ ~eos(wire[i].flags)
    /\ w.lastProcessed = 1 /\ w.pendingData = <<>> /\ win = <<>>
    /\ \A i \in DOMAIN wire : wire[i].typ # dataFrame

\* the Multiplexer is in writer.changeSettings with the parameters of a
\* SETTINGS frame the Reader forwarded
SettingsForwarded == mpPc = "write" /\ mpOut # <<>> /\ Head(mpOut).kind = "settings"

\* the SETTINGS frames with ACK and an empty payload among fs
SettingsAcks(fs) ==
    Len(SelectSeq(fs, LAMBDA f : f.typ = settingsFrame /\ ack(f.flags)
                                 /\ f.payload = <<>>))

\* C23: every SETTINGS frame the Multiplexer passes on while the transport
\* is open is answered by one more SETTINGS ACK on the transport (unless the
\* transport closes first); an ACK is written only in the step that takes a
\* parameter map, one per map, with the map's parameters applied.
C23_SettingsAcked ==
    /\ [][SettingsAcks(wire') # SettingsAcks(wire) =>
            /\ SettingsForwarded
            /\ SettingsAcks(wire') = SettingsAcks(wire) + 1
            /\ mpOut' = Tail(mpOut)
            /\ \A k \in DOMAIN Head(mpOut).params :
                  /\ k = initialWindowSizeSetting =>
                        w'.initWindow = Head(mpOut).params[k]
                  /\ k = maxFrameSizeSetting =>
                        w'.maxFrameSize = Head(mpOut).params[k]]_vars
    /\ \A n \in 0..MaxFrames :
          (SettingsForwarded /\ w.peer /\ SettingsAcks(wire) = n)
             ~> (~w.peer \/ SettingsAcks(wire) = n + 1)

\* the Reader has returned on the client preface: multiplexer.in is not
\* closed, which every later return of the Reader does
BadPreface == rdPc = "done" /\ mpIn = "open"

\* C24: after a bad client preface no frame reaches the Multiplexer and no
\* GOAWAY is written, and the Multiplexer and the Writer are shut down: the
\* transport comes to be closed.
C24_BadPrefaceCloses ==
    /\ [](BadPreface => nRead = 0 /\ \A i \in DOMAIN wire : wire[i].typ # goAwayFrame)
    /\ BadPreface ~> (mpPc = "done" /\ wrPc = "done" /\ ~w.peer)

\* C25: decodeInt gives back the value encodeInt was given, for every prefix
\* of 1 to 8 bits, and leaves exactly the bytes that follow the integer.
C25_IntRoundTrip ==
    rt.pc = "decoded" =>
        /\ rt.out.kind = "ok"
        /\ rt.out.value = rt.v
        /\ rt.out.rest = rt.tail

\* C25 witness: 2^64 - 1 with an 8-bit prefix went through ten continuation
\* bytes and came back, with bytes behind it.
C25_Witness ==
    /\ rt.pc = "decoded" /\ rt.v = MaxU64 /\ rt.prefix = 8
    /\ Len(rt.bytes) = 11 /\ rt.tail # <<>> /\ rt.out.value = MaxU64

\* C26: whatever is on the transport begins with the server's SETTINGS frame
\* that advertises INITIAL_WINDOW_SIZE = 2147483647.
C26_InitialSettingsFirst == wire # <<>> => wire[1] = InitialSettings

\* the Writer is taking the Multiplexer's settings-parameter message in this
\* step
SettingsTaken == SettingsForwarded /\ wrPc = "loop" /\ mpOut' = Tail(mpOut)

\* the DATA bytes a step took from the window k: sendToPeer subtracts a DATA
\* payload from the connection-level window and from its stream's window
Drained(k) ==
    (IF k = 0 THEN DataAll(wire') - DataAll(wire) ELSE 0)
    + DataOn(wire', k) - DataOn(wire, k)

\* C27: a settings-parameter message with INITIAL_WINDOW_SIZE = v adds
\* v - initWindow to every tracked window, the connection-level window (id 0)
\* among them, sets initWindow to v and then drains the pending-data queue
\* (what is left fits no window; the SETTINGS ACK is written behind the
\* drained frames); without INITIAL_WINDOW_SIZE the windows, initWindow and
\* the queue stay as they are.  A window that comes to be tracked in a later
\* step starts at initWindow.
C27_SettingsWindow ==
    /\ [][SettingsTaken =>
            LET params == Head(mpOut).params IN
            IF initialWindowSizeSetting \in DOMAIN params
            THEN /\ w'.initWindow = params[initialWindowSizeSetting]
                 /\ 0 \in DOMAIN w.streamsWindow
                 /\ DOMAIN w'.streamsWindow = DOMAIN w.streamsWindow
                 /\ \A k \in DOMAIN w.streamsWindow :
                        w'.streamsWindow[k] =
                            w.streamsWindow[k]
                            + (params[initialWindowSizeSetting] - w.initWindow)
                            - Drained(k)
                 /\ \A i \in DOMAIN w'.pendingData :
                        ~DataFits(w'.streamsWindow, w'.pendingData[i])
                 /\ \A i \in (Len(wire) + 1)..Len(wire') :
                        wire'[i].typ = settingsFrame => i = Len(wire')
            ELSE /\ w'.streamsWindow = w.streamsWindow
                 /\ w'.initWindow = w.initWindow
                 /\ w'.pendingData = w.pendingData]_vars
    /\ [][\A k \in DOMAIN w'.streamsWindow \ DOMAIN w.streamsWindow :
            w'.streamsWindow[k] =
                w.initWindow + (incrSum'[k] - incrSum[k]) - Drained(k)]_vars

\* C27 witness: INITIAL_WINDOW_SIZE 5 held a 10-byte body on stream 1 back,
\* INITIAL_WINDOW_SIZE 10 then raised both windows by 5 and the drain wrote
\* the body before the second SETTINGS ACK.
C27_Witness ==
    /\ w.initWindow = 10 /\ maxInit = InitWindow /\ w.pendingData = <<>>
    /\ incrSum[0] = 0 /\ incrSum[1] = 0
    /\ WindowOf(w.streamsWindow, 0) = 0 /\ WindowOf(w.streamsWindow, 1) = 0
    /\ Len(wire) >= 3
    /\ wire[Len(wire)] = Frame(settingsFrame, {ackBit}, 0, <<>>)
    /\ wire[Len(wire) - 1] = Frame(dataFrame, {eosBit}, 1, Words(10))
    /\ \E i \in 1..(Len(wire) - 2) : wire[i] = Frame(settingsFrame, {ackBit}, 0, <<>>)

\* the frames of q at the indices S, in the order of q
RECURSIVE Pick(_, _, _)
Pick(q, S, i) ==
    IF i > Len(q) THEN <<>>
    ELSE (IF i \in S THEN <<q[i]>> ELSE <<>>) \o Pick(q, S, i + 1)

\* the frames fs as they go to the transport with the frame size m
RECURSIVE SplitAll(_, _)
SplitAll(fs, m) ==
    IF fs = <<>> THEN <<>> ELSE splitFrame(Head(fs), m) \o SplitAll(Tail(fs), m)

IsPrefix(a, b) == Len(a) <= Len(b) /\ a = SubSeq(b, 1, Len(a))

\* the window k less the frames of q at the indices of S below i: a DATA
\* frame written takes its payload from the connection-level window and from
\* its stream's window
WindowBefore(x, S, i, k) ==
    x.streamsWindow[k]
    - DataBytes(Pick(x.pendingData, {j \in S : j < i}, 1),
                IF k = 0 THEN DrainStreams ELSE {k})

\* the frame at index i of the queue passes the two-window test when the
\* frames at S were written before it
PassesAfter(x, S, i) ==
    /\ WindowBefore(x, S, i, 0) >= Len(x.pendingData[i].payload)
    /\ WindowBefore(x, S, i, x.pendingData[i].sid) >= Len(x.pendingData[i].payload)

\* C28: a drain goes through the queue in order; the frames it wrote (the
\* indices S) are those that pass the two-window test against the windows as
\* reduced by the frames written before them in this drain, they are on the
\* transport in queue order, and the others are the new queue in their
\* order: no frame is lost or twice there.  When the transport fails or is
\* closed, what was written is the beginning of those frames.
C28_DrainFifo ==
    dr.pc = "drained" =>
        \E S \in SUBSET DOMAIN dr.w.pendingData :
            /\ dr.out.pendingData = Pick(dr.w.pendingData, DOMAIN dr.w.pendingData \ S, 1)
            /\ IsPrefix(dr.wire, SplitAll(Pick(dr.w.pendingData, S, 1), dr.w.maxFrameSize))
            /\ dr.out.peer =>
                  /\ dr.wire = SplitAll(Pick(dr.w.pendingData, S, 1), dr.w.maxFrameSize)
                  /\ \A i \in DOMAIN dr.w.pendingData : i \in S <=> PassesAfter(dr.w, S, i)
                  /\ \A k \in DOMAIN dr.w.streamsWindow :
                        dr.out.streamsWindow[k] =
                            WindowBefore(dr.w, S, Len(dr.w.pendingData) + 1, k)

\* C28 witness: of three queued frames the first and the third were written
\* and the second stays, although it fitted the windows as they were before
\* the drain.
C28_Witness ==
    /\ dr.pc = "drained" /\ dr.out.peer /\ Len(dr.w.pendingData) = 3
    /\ dr.out.pendingData = <<dr.w.pendingData[2]>>
    /\ dr.wire = <<dr.w.pendingData[1], dr.w.pendingData[3]>>
    /\ DataFits(dr.w.streamsWindow, dr.w.pendingData[2])

\* the Writer is taking the frame at the head of writer.in in this step
FrameTaken == wrPc = "loop" /\ win # <<>> /\ win' = Tail(win)

\* the frame f as handleFrame hands it to sendToPeer, split for the transport
AsWritten(f) ==
    splitFrame(IF f.typ = goAwayFrame THEN [f EXCEPT !.payload[1] = w.lastProcessed]
               ELSE f,
               w.maxFrameSize)

\* the frames of fs of type t on the stream id, with END_STREAM or without
CountOf(fs, t, id, end) ==
    Cardinality({i \in DOMAIN fs :
                    fs[i].typ = t /\ fs[i].sid = id /\ eos(fs[i].flags) = end})

\* C29: writer.in is a queue (a send appends, the Writer takes the head), the
\* Multiplexer sends its frames in the order it made them, and the Writer
\* puts the frame it takes behind everything on the transport unless it
\* defers it as DATA that does not fit a window (a failing or closed
\* transport cuts it short); so every DATA frame on the transport has its
\* response's HEADERS frame before it.  The Reader reads the next frame only
\* when the last one was handed over, and what it hands over ends with the
\* frame it read last.
C29_InOrder ==
    /\ [][win' # win =>
            \/ \E f \in {rdOut, InitialSettings} \cup
                         {mpOut[i].frame :
                            i \in {j \in DOMAIN mpOut : j = 1 /\ mpOut[j].kind = "frame"}} :
                   win' = Append(win, f)
            \/ /\ FrameTaken
               /\ \/ /\ Head(win).typ = dataFrame
                     /\ ~DataFits(w'.streamsWindow, Head(win))
                     /\ w'.pendingData = Append(w.pendingData, Head(win))
                     /\ wire' = wire
                  \/ /\ w'.pendingData = w.pendingData
                     /\ \E n \in 0..Len(AsWritten(Head(win))) :
                           /\ wire' = wire \o SubSeq(AsWritten(Head(win)), 1, n)
                           /\ n < Len(AsWritten(Head(win))) => ~w'.peer]_vars
    /\ [][mpPc = "write" /\ Head(mpOut).kind = "frame" /\ mpOut' # mpOut =>
            mpOut' = Tail(mpOut) /\ win' = Append(win, Head(mpOut).frame)]_vars
    /\ [](\A i \in DOMAIN wire :
            wire[i].typ = dataFrame =>
                CountOf(SubSeq(wire, 1, i - 1), headersFrame, wire[i].sid, FALSE)
                    > CountOf(SubSeq(wire, 1, i - 1), dataFrame, wire[i].sid, TRUE))
    /\ [][nRead' # nRead => rdPc = "read" /\ rdOut = NoFrame]_vars
    /\ [](rdPc = "toMux" =>
            /\ rdOut.sid = rdF.sid
            /\ rdF.typ \notin {headersFrame, continuationFrame} => rdOut = rdF)

\* C29 witness: a response went out whole, its HEADERS frame and right
\* behind it its DATA frame, behind the frames written before.
C29_Witness ==
    /\ w.peer /\ w.pendingData = <<>> /\ maxInit = InitWindow
    /\ \E i \in 3..(Len(wire) - 1) :
          /\ wire[i] = Frame(headersFrame, {eohBit}, 1, Words(HdrBlockLen))
          /\ wire[i + 1] = Frame(dataFrame, {eosBit}, 1, Words(10))

\* DecodeHeaderBlock is about to decode an instruction whose first byte is
\* from lo up to hi - 1
Decoding(lo, hi) ==
    hp.pc = "decoding" /\ hp.rest # <<>> /\ hp.rest[1] >= lo /\ hp.rest[1] < hi

\* b is what is left of a after its oldest entries went
IsSuffix(b, a) == \E j \in 0..Len(a) : b = SubSeq(a, j + 1, Len(a))

\* C30: while nothing crashes, a literal field with incremental indexing
\* (01xxxxxx) that is decoded puts the field it appends to the output into
\* the dynamic table as its newest entry (eviction may take the oldest
\* entries, the new one too when it is larger than the table may be) and
\* leaves the max size; an indexed field (1xxxxxxx) and a literal field
\* without indexing (0000xxxx, 0001xxxx) leave the table as it is; a size
\* update inserts nothing.  A block made by EncodeHeaderList is decoded to
\* the list it was made of, with the table as it was.
C30_OnlyIndexingInserts ==
    /\ [][hp'.kind # "panic" =>
            /\ Decoding(64, 128) /\ hp'.kind = "ok" =>
                  /\ hp'.list = Append(hp.list, hp'.list[Len(hp'.list)])
                  /\ IsSuffix(Live(hp'.t), Append(Live(hp.t), hp'.list[Len(hp'.list)]))
                  /\ hp'.t.maxTableSize = hp.t.maxTableSize
                  /\ hp'.t.allowedTableSize = hp.t.allowedTableSize
            /\ Decoding(64, 128) /\ hp'.kind # "ok" => hp'.t = hp.t
            /\ Decoding(128, 256) \/ Decoding(0, 32) => hp'.t = hp.t
            /\ Decoding(32, 64) => IsSuffix(Live(hp'.t), Live(hp.t))]_vars
    /\ [][hp.pc = "decoding" /\ hp.block \in EncodedBlocks =>
            hp'.t = hp.t /\ hp'.kind = "ok"]_vars
    /\ [](\A l \in HeaderLists :
            hp.pc = "idle" /\ hp.kind = "ok" /\ hp.block = EncodeHeaderList(l)
                => hp.list = l)

\* C30 witness: with two fields in the dynamic table, the block of a list
\* with a value of LongLen bytes was decoded to that list.
C30_Witness ==
    /\ hp.pc = "idle" /\ hp.kind = "ok" /\ Len(Live(hp.t)) = 2
    /\ hp.list = <<NewHeaderField(<<120>>, LongValue), NewHeaderField(<<110>>, <<98>>)>>
    /\ hp.block = EncodeHeaderList(hp.list)
    /\ Len(hp.block) > LongLen + 2 + 2 + 5

\* C31: under fair scheduling the Writer gets past its startup send of the
\* SETTINGS frame on writer.in and reaches its loop, whatever the Reader and
\* the Multiplexer have sent on writer.in before; a process that a panic has
\* ended is left aside here.
C31_WriterReachesLoop == <>(wrPc = "loop" \/ ~Alive)

\* the Multiplexer's loop has returned by itself after it sent GOAWAY, the
\* Reader still running: multiplexer.in is not closed
MuxExitedOnError == MuxExiting /\ mpIn = "open" /\ rdPc # "done"

\* C32: under fair scheduling, once the Multiplexer has ended its loop by
\* itself on a connection error the Reader comes to return: it does not stay
\* blocked in multiplexer.multiplex (a process that a panic has ended is left
\* aside here).
C32_ReaderTerminates == MuxExitedOnError ~> (rdPc = "done" \/ ~Alive)

\* C33: the Writer's send of a DATA or HEADERS frame ends and the Writer goes
\* on, whatever MAX_FRAME_SIZE the client has set, 0 too: splitPayload does
\* not end the process.
C33_SendTerminates == panicked # "writer: divide by zero"

\* C34: on every stream id at most one handler task runs and at most one
\* response HEADERS frame reaches the transport, and a handler task is
\* started only on a stream that is idle or open: not again on one that is
\* half-closed (remote) or closed.
C34_OneRequestPerStream ==
    /\ [](\A id \in StreamIDs :
            /\ tasks[id] <= 1
            /\ CountOf(wire, headersFrame, id, TRUE)
                  + CountOf(wire, headersFrame, id, FALSE) <= 1)
    /\ [][\A id \in StreamIDs :
            tasks'[id] > tasks[id] =>
                get(streams, id).state \in {idleStream, openStream}]_vars

\* the frame f ends its stream: HEADERS or DATA with END_STREAM, or RST_STREAM
EndsStream(f) ==
    \/ f.typ \in {headersFrame, dataFrame} /\ eos(f.flags)
    \/ f.typ = rstStreamFrame

\* C35: the Writer raises last-processed-stream-id only to the id of a frame
\* that ends its stream and that it is sending in that step, taken from
\* writer.in or from the pending-data queue; a PING ACK or SETTINGS ACK does
\* not change it.
C35_LastProcessedByStreamEnd ==
    [][w'.lastProcessed # w.lastProcessed =>
         \/ FrameTaken /\ EndsStream(Head(win)) /\ Head(win).sid = w'.lastProcessed
         \/ \E i \in DOMAIN w.pendingData :
               EndsStream(w.pendingData[i]) /\ w.pendingData[i].sid = w'.lastProcessed]_vars

====
